---- MODULE Spec2Model ----
(***************************************************************************)
(* A model of the kernel-api conversion service: the job tracker          *)
(* (app/services/conversion.py), the conversion pipeline it drives        *)
(* (app/services/conversion_pipeline.py), the HTTP handlers that call it  *)
(* (app/api/endpoints/conversion.py) and the file reaper                  *)
(* (app/services/file_cleanup.py).                                        *)
(*                                                                         *)
(* Every handler is a coroutine of one asyncio event loop.  A coroutine   *)
(* keeps the loop until it awaits; convert_async awaits nothing, so the   *)
(* steps of one convert_async call are never interleaved with another     *)
(* handler.  The variable frame holds the call that occupies the loop.    *)
(***************************************************************************)
EXTENDS Integers, Sequences, FiniteSets, TLC

(* ------------------------------ bounds -------------------------------- *)

\* Number of job identifiers (uuid4 values) and upload slots.
MaxJobs == 2

\* Largest "_k" suffix the output-path probe is followed to.
MaxCounter == 1

\* Number of files that are older than the TTL when a reaper cycle runs.
MaxExpired == 1

\* Largest number of vertices of the meshes the validator is given.
MaxVertices == 3

\* Largest number of faces of the meshes the validator is given.
MaxFaces == 2

\* Deepest nesting of subdirectories below a directory the reaper cleans.
MaxDepth == 1

\* Number of cleanup loop tasks start() creates.
MaxTasks == 2

\* Number of operations that raise OSError during one cleanup cycle.
MaxFaults == 1

\* The faces of a shape, the nodes of a face's triangulation and its
\* triangles.
MaxKernelFaces == 2
MaxNodes == 2
MaxTriangles == 1

JobIds == 1 .. MaxJobs

(* ---------------------- app/schemas/conversion.py --------------------- *)

PENDING == "pending"

IN_PROGRESS == "in_progress"

COMPLETED == "completed"

FAILED == "failed"

ConversionStatus == {PENDING, IN_PROGRESS, COMPLETED, FAILED}

\* The value of an Optional[str] field that was not given.
None == "None"

\* The value of an output_file field that was not given.
NoPath == << >>

\* ConversionResponse(job_id, status, message, output_file, error)
ConversionResponse(job_id, status, message, output_file, error) ==
    [job_id |-> job_id, status |-> status, message |-> message,
     output_file |-> output_file, error |-> error]

\* self.jobs.get(job_id) of an identifier without a record (Python None).
NotFound == [job_id |-> 0, status |-> "not_found", message |-> None,
             output_file |-> NoPath, error |-> None]

(* ------------------------- app/core/config.py ------------------------- *)

SUPPORTED_INPUT_FORMATS == {"step", "stp", "iges", "igs", "brep"}

SUPPORTED_OUTPUT_FORMATS == {"stl", "obj", "glb", "gltf"}

(* ----------------- inputs the model draws requests from --------------- *)

\* Uploaded files, <<extension, what the bytes are>>: a readable solid, bytes
\* the reader rejects, a file that reads to a mesh without vertices, and a
\* file of the extension the endpoint accepts although no converter is
\* registered for it.
InputFiles ==
    {<<"step", "valid">>, <<"step", "malformed">>, <<"step", "empty">>,
     <<"brep", "valid">>}

\* Output tokens.
OutputFormats == {"stl"}

\* How the exporter's write ends: the file is complete, the exporter raises
\* before it opens the file, or it raises once the file is there.
ExportOutcomes == {"ok", "fail", "fail_partial"}

(* ------------------------------ files --------------------------------- *)

NoFile == [exists |-> FALSE, ext |-> None, kind |-> None]

\* A regular file of UPLOAD_DIR.
File(ext, kind) == [exists |-> TRUE, ext |-> ext, kind |-> kind]

\* Paths of OUTPUT_DIR: <<base name, counter, format>>; counter 0 is the
\* path without a "_k" suffix.
OutPaths == JobIds \X (0 .. MaxCounter) \X OutputFormats

VARIABLES
    jobs,              \* ConversionService.jobs: job_id -> ConversionResponse
    uploads,           \* files of UPLOAD_DIR, by the job id in their name
    outputs,           \* OUTPUT_DIR: whether a file exists at each path
    ENABLE_OPENCASCADE,\* settings.ENABLE_OPENCASCADE
    kernel,            \* whether the OCP modules can be imported
    next_id,           \* how many uuid4 job ids convert_file has drawn
    queue,             \* background tasks added and not yet started
    frame,             \* the convert_async call that occupies the event loop
    escaped,           \* history: an exception left a convert_async call
    sync,              \* the convert_sync call of the call on the event loop
    last_ack,          \* history: the last answer of convert_file
    last_poll,         \* history: the last answer of get_job_status, in part
    last_call,         \* history: the last call of another operation, its answer
    converts,          \* the convert calls of two clients of the pipeline
    cleanup,           \* the FileCleanupService object and its asyncio tasks
    tree               \* the directories the FileCleanupService is configured with

vars == <<jobs, uploads, outputs, ENABLE_OPENCASCADE, kernel, converts, next_id, queue,
          frame, escaped, sync, last_ack, last_poll, last_call,
          cleanup, tree>>

(* ------------------------------- Init --------------------------------- *)

\* No call was made.
NoResult == [kind |-> "none", path |-> NoPath, type |-> None, msg |-> None]

\* A call that returned the path of the file it wrote.
Return(path) == [kind |-> "return", path |-> path, type |-> None, msg |-> None]

\* A call that raised an exception of class type with str(e) = msg.
Raise(type, msg) == [kind |-> "raise", path |-> NoPath, type |-> type, msg |-> msg]

\* The output-path probe left the counters the model follows.
OutOfBounds == [kind |-> "out_of_bounds", path |-> NoPath, type |-> None, msg |-> None]

NoFrame == [pc |-> "idle", job_id |-> 0, input_path |-> 0, output_format |-> None]

NoSync == [pipeline |-> NoResult, result |-> NoResult, placeholder |-> FALSE]

NoAck == [kind |-> "none", status |-> None]

NoPoll == [job_id |-> 0, status |-> None, output_file |-> NoPath]

NoCall == [op |-> "none"]

\* A client that has called convert: pc is "idle" before a call, "probed"
\* between _generate_output_path and exporter.export, "returned" or "raised"
\* after it; wrote says that the exporter created a file at path.
NoConvert == [pc |-> "idle", input_path |-> 0, output_format |-> None,
              path |-> NoPath, wrote |-> FALSE]

Clients == {1, 2}

\* The directories of the reaper: <<root, depth>> is the root directory for
\* depth 0 and the subdirectory nested depth levels below it otherwise.  The
\* root "uploads" has a chain of subdirectories, the root "temp" has none.
Dirs == {<<"uploads", d>> : d \in 0 .. MaxDepth} \cup {<<"temp", 0>>}

\* A directory that does not exist.
NoDir == [exists |-> FALSE, file |-> "absent"]

\* A directory and the regular file in it: "absent", "fresh" (age at most the
\* TTL), "expired" (age above the TTL) or "unreadable" (stat raises OSError).
Dir(file) == [exists |-> TRUE, file |-> file]

\* self.directories, in the order the loop visits them.
directories == << <<"uploads", 0>>, <<"temp", 0>> >>

\* FileCleanupService.__init__ (lines 23-27), with no task created yet; tasks
\* are the cleanup loop tasks created so far and awaiting the tasks that a
\* stop() call is waiting for.
NewCleanupService ==
    [running |-> FALSE, _task |-> 0, _cleaned_files |-> {}, tasks |-> << >>,
     awaiting |-> {}, ttl_seconds |-> 1800, directories |-> directories]

\* The service after construction, with empty upload and output directories.
Init ==
    /\ jobs = [j \in JobIds |-> NotFound]
    /\ uploads = [j \in JobIds |-> NoFile]
    /\ outputs = [p \in OutPaths |-> FALSE]
    /\ ENABLE_OPENCASCADE \in BOOLEAN
    /\ kernel \in BOOLEAN
    /\ next_id = 0
    /\ queue = {}
    /\ frame = NoFrame
    /\ escaped = FALSE
    /\ sync = NoSync
    /\ last_ack = NoAck
    /\ last_poll = NoPoll
    /\ last_call = NoCall
    /\ converts = [c \in Clients |-> NoConvert]
    /\ cleanup = NewCleanupService
    /\ tree = [d \in Dirs |-> IF d[2] = 0 THEN Dir("absent") ELSE NoDir]

(* ------------------ app/services/conversion_pipeline.py --------------- *)

\* The keys of ConversionPipeline.converters.
converters == {"step", "stp", "iges", "igs", "stl"}

\* The keys of ConversionPipeline.exporters.
exporters == {"stl", "stl_ascii", "stl_binary", "obj", "glb", "gltf"}

\* str.lower() on the tokens the model draws.
Lower(s) ==
    CASE s = "STL" -> "stl"
      [] s = "Stl_Ascii" -> "stl_ascii"
      [] s = "GLB" -> "glb"
      [] s = "Gltf" -> "gltf"
      [] s = "STEP" -> "step"
      [] s = "Igs" -> "igs"
      [] OTHER -> s

\* os.path.splitext(os.path.basename(input_path))[0]: an upload is named
\* "<job id>_<file name>", and the model's base names are the job ids.
BaseName(input_path) == input_path

\* str(e) of the ValueError the STEP and IGES readers raise on ImportError.
KernelMissing == "OCP (OpenCascade Python) is required"

\* A reader that answers a STEP or IGES file without the kernel.
ConverterReadFallback(f) ==
    IF f.kind = "malformed"
    THEN Raise("ValueError", "Failed to read file")
    ELSE Return(NoPath)

\* converter.read: the STEP and IGES readers import OCP inside read and turn
\* an ImportError into a ValueError; they raise ValueError when ReadFile does
\* not answer IFSelect_RetDone.
ConverterRead(f) ==
    IF Lower(f.ext) \in {"step", "stp", "iges", "igs"} /\ ~kernel
    THEN Raise("ValueError", KernelMissing)
    ELSE IF f.kind = "malformed"
    THEN Raise("ValueError", "Failed to read file")
    ELSE Return(NoPath)

\* ConversionPipeline.quality_presets, in thousandths (0.001 is 1).
quality_presets ==
    [low |-> [deflection |-> 1000, angular_deflection |-> 1000],
     medium |-> [deflection |-> 100, angular_deflection |-> 500],
     high |-> [deflection |-> 10, angular_deflection |-> 100],
     ultra |-> [deflection |-> 1, angular_deflection |-> 50]]

\* An Optional[float] argument: Missing is None, Some(v) the float v.
Missing == << >>

Some(v) == <<v>>

\* Python's "x or y" for an Optional[float] x: y when x is None or 0.0.
Or(x, y) == IF x # Missing /\ x[1] # 0 THEN x[1] ELSE y

\* A lookup whose default for an unknown name is the coarsest preset.
PresetFallbackLow(quality) ==
    IF quality \in DOMAIN quality_presets THEN quality_presets[quality]
    ELSE quality_presets["low"]

\* self.quality_presets.get(quality, self.quality_presets['medium']).
Preset(quality) ==
    IF quality \in DOMAIN quality_presets THEN quality_presets[quality]
    ELSE quality_presets["medium"]

\* A resolution that sends both values through "or" whatever was given.
GetQualityParametersOr(quality, deflection, angular_deflection) ==
    [deflection |-> Or(deflection, Preset(quality).deflection),
     angular_deflection |-> Or(angular_deflection, Preset(quality).angular_deflection)]

\* A resolution that tests every value with "is not None".
GetQualityParametersStrict(quality, deflection, angular_deflection) ==
    [deflection |-> IF deflection # Missing THEN deflection[1]
                    ELSE Preset(quality).deflection,
     angular_deflection |-> IF angular_deflection # Missing THEN angular_deflection[1]
                            ELSE Preset(quality).angular_deflection]

\* _get_quality_parameters: both values given are returned as they are;
\* otherwise each field is "value or preset[field]".
GetQualityParameters(quality, deflection, angular_deflection) ==
    IF deflection # Missing /\ angular_deflection # Missing
    THEN [deflection |-> deflection[1], angular_deflection |-> angular_deflection[1]]
    ELSE [deflection |-> Or(deflection, Preset(quality).deflection),
          angular_deflection |->
              Or(angular_deflection, Preset(quality).angular_deflection)]

\* A MeshData: the number of rows of vertices, and faces, a sequence of
\* index triples.
MeshData(vertices, faces) == [vertices |-> vertices, faces |-> faces]

\* The mesh converter.read returns for a file it reads: a triangle, or the
\* MeshData() of a file without geometry.
MeshOf(f) ==
    IF f.kind = "empty" THEN MeshData(0, << >>)
    ELSE MeshData(3, << <<0, 1, 2>> >>)

\* len(set(face)) < 3.
IsDegenerate(face) == Cardinality({face[i] : i \in DOMAIN face}) < 3

\* A validator that looks at the faces before the vertices.
ValidateMeshFacesFirst(mesh_data) ==
    IF Len(mesh_data.faces) = 0 THEN Raise("ValueError", "Mesh has no faces")
    ELSE IF mesh_data.vertices = 0 THEN Raise("ValueError", "Mesh has no vertices")
    ELSE Return(NoPath)

\* _validate_mesh: raises for a mesh without vertices, then for one without
\* faces, and returns None otherwise.
ValidateMesh(mesh_data) ==
    IF mesh_data.vertices = 0 THEN Raise("ValueError", "Mesh has no vertices")
    ELSE IF Len(mesh_data.faces) = 0 THEN Raise("ValueError", "Mesh has no faces")
    ELSE Return(NoPath)

\* Whether _validate_mesh logs "Mesh contains degenerate faces" (lines 167-170).
ValidateMeshWarns(mesh_data) ==
    /\ ValidateMesh(mesh_data).kind = "return"
    /\ \E i \in DOMAIN mesh_data.faces : IsDegenerate(mesh_data.faces[i])

\* Mesh controls that return the mesh without validating it.
ApplyMeshControlsUnchecked(mesh_data) ==
    [result |-> Return(NoPath), mesh |-> mesh_data]

\* _apply_mesh_controls: decimation and smoothing only log, then the mesh is
\* validated and returned as it came.
ApplyMeshControls(mesh_data) ==
    [result |-> ValidateMesh(mesh_data), mesh |-> mesh_data]

\* kwargs.get(key, default).
KwGet(kwargs, key, default) ==
    IF key \in DOMAIN kwargs THEN kwargs[key] ELSE default

\* The empty dict.
EmptyDict == [k \in {} |-> FALSE]

\* An option table whose stl_ascii branch reads the caller's binary option.
PrepareExportOptionsAsciiFromCaller(output_format, kwargs) ==
    LET fmt == Lower(output_format)
    IN  CASE fmt = "stl_ascii" ->
               [k \in {"binary"} |-> KwGet(kwargs, "binary", FALSE)]
          [] fmt = "stl_binary" \/ fmt = "stl" ->
               [k \in {"binary"} |-> KwGet(kwargs, "binary", TRUE)]
          [] fmt = "obj" ->
               [k \in {"include_normals", "include_material"} |->
                   IF k = "include_normals"
                   THEN KwGet(kwargs, "include_normals", TRUE)
                   ELSE KwGet(kwargs, "include_material", FALSE)]
          [] fmt = "glb" -> [k \in {"binary"} |-> TRUE]
          [] fmt = "gltf" -> [k \in {"binary"} |-> FALSE]
          [] OTHER -> EmptyDict

\* _prepare_export_options: the export_kwargs dict for an output token.
PrepareExportOptions(output_format, kwargs) ==
    LET fmt == Lower(output_format)
    IN  CASE fmt = "stl_ascii" -> [k \in {"binary"} |-> FALSE]
          [] fmt = "stl_binary" \/ fmt = "stl" ->
               [k \in {"binary"} |-> KwGet(kwargs, "binary", TRUE)]
          [] fmt = "obj" ->
               [k \in {"include_normals", "include_material"} |->
                   IF k = "include_normals"
                   THEN KwGet(kwargs, "include_normals", TRUE)
                   ELSE KwGet(kwargs, "include_material", FALSE)]
          [] fmt = "glb" -> [k \in {"binary"} |-> TRUE]
          [] fmt = "gltf" -> [k \in {"binary"} |-> FALSE]
          [] OTHER -> EmptyDict

\* ConversionPipeline.converters: the class registered for each extension.
converter_of ==
    [step |-> "STEPConverterOCP", stp |-> "STEPConverterOCP",
     iges |-> "IGESConverter", igs |-> "IGESConverter", stl |-> "STLConverter"]

\* ConversionPipeline.exporters: the class registered for each output token.
exporter_of ==
    [stl |-> "STLExporter", stl_ascii |-> "STLExporter",
     stl_binary |-> "STLExporter", obj |-> "OBJExporter",
     glb |-> "GLTFExporter", gltf |-> "GLTFExporter"]

\* The objects convert has selected when it calls exporter.export.
Selected(converter, exporter, options) ==
    [kind |-> "selected", converter |-> converter, exporter |-> exporter,
     options |-> options]

\* A dispatch that looks the exporter up under the token as it was given.
DispatchTokenAsGiven(ext, output_format, kwargs) ==
    IF Lower(ext) \notin DOMAIN converter_of
    THEN Raise("ValueError", "Unsupported input format")
    ELSE IF output_format \notin DOMAIN exporter_of
    THEN Raise("ValueError", "Unsupported output format")
    ELSE Selected(converter_of[Lower(ext)], exporter_of[output_format],
                  PrepareExportOptions(output_format, kwargs))

\* The format dispatch of convert for an existing input file with the given
\* extension: the two registry tests (lines 75-84), the converter of line 93,
\* the exporter of line 104 and the export options of line 107.
Dispatch(ext, output_format, kwargs) ==
    IF Lower(ext) \notin DOMAIN converter_of
    THEN Raise("ValueError", "Unsupported input format")
    ELSE IF Lower(output_format) \notin DOMAIN exporter_of
    THEN Raise("ValueError", "Unsupported output format")
    ELSE Selected(converter_of[Lower(ext)], exporter_of[Lower(output_format)],
                  PrepareExportOptions(output_format, kwargs))

\* The while loop of _generate_output_path from the given counter on.
RECURSIVE ProbeOutputPath(_, _, _, _)
ProbeOutputPath(fs, base, fmt, counter) ==
    IF counter > MaxCounter THEN NoPath
    ELSE IF fs[<<base, counter, fmt>>]
    THEN ProbeOutputPath(fs, base, fmt, counter + 1)
    ELSE <<base, counter, fmt>>

\* A path generator that tests base.fmt and takes base_1.fmt untested.
GenerateOutputPathOnce(fs, input_path, output_format) ==
    LET base == BaseName(input_path)
        fmt == Lower(output_format)
    IN  IF fs[<<base, 0, fmt>>] THEN <<base, 1, fmt>> ELSE <<base, 0, fmt>>

\* _generate_output_path: base.fmt, else the first unused base_k.fmt.
GenerateOutputPath(fs, input_path, output_format) ==
    LET base == BaseName(input_path)
        fmt == Lower(output_format)
    IN  IF fs[<<base, 0, fmt>>]
        THEN ProbeOutputPath(fs, base, fmt, 1)
        ELSE <<base, 0, fmt>>

\* An exporter whose except clause unlinks what it wrote.
ExportCleans(fs, path, exp) ==
    IF exp = "ok"
    THEN [result |-> Return(path), outputs |-> [fs EXCEPT ![path] = TRUE]]
    ELSE [result |-> Raise("Exception", "Export failed"), outputs |-> fs]

\* exporter.export: the file is written and its path returned, or the
\* exporter raises; its except clause logs and raises again, so whatever was
\* written before the failure (the file open() created, the .obj written
\* before the .mtl) stays at output_path.
Export(fs, path, exp) ==
    IF exp = "ok"
    THEN [result |-> Return(path), outputs |-> [fs EXCEPT ![path] = TRUE]]
    ELSE IF exp = "fail_partial"
    THEN [result |-> Raise("Exception", "Export failed"),
          outputs |-> [fs EXCEPT ![path] = TRUE]]
    ELSE [result |-> Raise("Exception", "Export failed"), outputs |-> fs]

\* An except clause that wraps what it caught in an error of its own.
ReraiseWrapped(e) == Raise("RuntimeError", "Conversion failed")

\* The except clause of convert (lines 114-116): log, then a bare raise.
Reraise(e) == e

\* ConversionPipeline.convert on the uploads ups and the outputs fs: every
\* step's exception is logged and raised again by the except clause.  steps
\* are the calls convert made, in their order: converter.read,
\* _apply_mesh_controls, _generate_output_path, exporter.export.
PipelineConvert(ups, fs, input_path, output_format, exp) ==
    LET f == ups[input_path]
        same(r, steps) == [result |-> Reraise(r), outputs |-> fs, steps |-> steps]
        exported(x) == [result |-> IF x.result.kind = "raise"
                                   THEN Reraise(x.result) ELSE x.result,
                        outputs |-> x.outputs,
                        steps |-> <<"read", "validate", "probe", "export">>]
    IN  IF ~f.exists
        THEN same(Raise("FileNotFoundError", "Input file not found"), << >>)
        ELSE IF Lower(f.ext) \notin converters
        THEN same(Raise("ValueError", "Unsupported input format"), << >>)
        ELSE IF Lower(output_format) \notin exporters
        THEN same(Raise("ValueError", "Unsupported output format"), << >>)
        ELSE IF ConverterRead(f).kind = "raise"
        THEN same(ConverterRead(f), <<"read">>)
        ELSE IF ApplyMeshControls(MeshOf(f)).result.kind = "raise"
        THEN same(ApplyMeshControls(MeshOf(f)).result, <<"read", "validate">>)
        ELSE LET path == GenerateOutputPath(fs, input_path, output_format)
             IN  IF path = NoPath
                 THEN [result |-> OutOfBounds, outputs |-> fs,
                       steps |-> <<"read", "validate", "probe">>]
                 ELSE exported(Export(fs, path, exp))

(* ---------------------- app/services/converters/ ---------------------- *)

\* A MeshData a converter returns: geometry is "real" for a mesh tessellated
\* from the file, "unit_cube" for the cube of _tessellate_with_params and
\* "box_100" for the box of _read_with_simple_parser; metadata is the dict.
Mesh(geometry, metadata) ==
    [kind |-> "mesh", geometry |-> geometry, metadata |-> metadata]

\* BaseConverter._tessellate_with_params: the unit cube, tagged.
TessellateWithParams(deflection, angular_deflection) ==
    Mesh("unit_cube",
         [k \in {"placeholder", "deflection", "angular_deflection"} |->
             CASE k = "placeholder" -> TRUE
               [] k = "deflection" -> deflection
               [] OTHER -> angular_deflection])

\* dict.update: the entries of more replace and extend those of metadata.
Update(metadata, more) ==
    [k \in DOMAIN metadata \cup DOMAIN more |->
        IF k \in DOMAIN more THEN more[k] ELSE metadata[k]]

\* STEPConverter._read_fallback: the cube of _tessellate_with_params with
\* the file's facts and placeholder = True added to its metadata.
ReadFallback(deflection, angular_deflection) ==
    LET mesh_data == TessellateWithParams(deflection, angular_deflection)
    IN  Mesh(mesh_data.geometry,
             Update(mesh_data.metadata,
                    [k \in {"source_format", "opencascade_required", "placeholder"} |->
                        IF k = "source_format" THEN "STEP" ELSE TRUE]))

\* STEPConverter.read: a missing file raises; with pythonocc the file is
\* tessellated or its error raised again, without it _read_fallback answers.
STEPConverterRead(has_opencascade, file, deflection, angular_deflection) ==
    IF file = "missing" THEN Raise("FileNotFoundError", "File not found")
    ELSE IF has_opencascade
    THEN IF file = "valid"
         THEN Mesh("real", [k \in {"source_format"} |-> "STEP"])
         ELSE Raise("ValueError", "Failed to read STEP file")
    ELSE ReadFallback(deflection, angular_deflection)

\* STEPConverterSafe._read_with_freecad_cli: FileNotFoundError when no
\* FreeCADCmd is found, ValueError when its run fails, else the parsed mesh.
ReadWithFreecadCli(freecad, deflection) ==
    CASE freecad = "absent" -> Raise("FileNotFoundError", "FreeCAD not found")
      [] freecad = "fails" -> Raise("ValueError", "FreeCAD conversion failed")
      [] OTHER -> Mesh("real",
                       [k \in {"source_format", "converter", "deflection"} |->
                           CASE k = "source_format" -> "STEP"
                             [] k = "converter" -> "FreeCAD"
                             [] OTHER -> deflection])

\* STEPConverterSafe._read_with_external_converter.
ReadWithExternalConverter ==
    Raise("NotImplementedError", "External converter not configured")

\* STEPConverterSafe._read_with_simple_parser: ValueError unless the first
\* 1000 characters hold 'ISO-10303-21', else a box of side 100 whose
\* metadata has source_format, converter, warning and deflection.
ReadWithSimpleParser(file, deflection) ==
    IF file # "valid" THEN Raise("ValueError", "Not a valid STEP file")
    ELSE Mesh("box_100",
              [k \in {"source_format", "converter", "warning", "deflection"} |->
                  CASE k = "source_format" -> "STEP"
                    [] k = "converter" -> "simple_parser"
                    [] k = "warning" -> "Basic geometry only"
                    [] OTHER -> deflection])

\* STEPConverterSafe._read_placeholder: the simple parser once more.
ReadPlaceholder(file, deflection) == ReadWithSimpleParser(file, deflection)

\* STEPConverterSafe.read: the first method that returns, each exception
\* logged and skipped, ValueError when every method raised.
STEPConverterSafeRead(freecad, file, deflection, angular_deflection) ==
    IF file = "missing" THEN Raise("FileNotFoundError", "File not found")
    ELSE IF ReadWithFreecadCli(freecad, deflection).kind = "mesh"
    THEN ReadWithFreecadCli(freecad, deflection)
    ELSE IF ReadWithExternalConverter.kind = "mesh"
    THEN ReadWithExternalConverter
    ELSE IF ReadWithSimpleParser(file, deflection).kind = "mesh"
    THEN ReadWithSimpleParser(file, deflection)
    ELSE IF ReadPlaceholder(file, deflection).kind = "mesh"
    THEN ReadPlaceholder(file, deflection)
    ELSE Raise("ValueError", "All STEP reading methods failed")

\* The B-rep converters walk the faces of the meshed shape.  A kernel face is
\* its triangulation (the node positions and the triangles, which name nodes
\* from 1), whether its location is not the identity (moved) and whether its
\* orientation is TopAbs_REVERSED.  A position stands for a point; the
\* transformation of a moved face shifts it.
Transformed(p) == p + 1

\* triangulation.Node(i), transformed if the location is not the identity.
Node(face, i) == IF face.moved THEN Transformed(face.nodes[i]) ELSE face.nodes[i]

\* STEPConverterOCP.read from the k-th face of the explorer on (lines 62-107):
\* the nodes of a face are appended to vertices and its triangles are
\* renumbered from base_vertex_index, Python's indices starting at 0.
RECURSIVE STEPConverterOCPExplore(_, _, _, _)
STEPConverterOCPExplore(kfaces, k, vertices, faces) ==
    IF k > Len(kfaces)
    THEN [kind |-> "return", vertices |-> vertices, faces |-> faces]
    ELSE LET face == kfaces[k]
             base_vertex_index == Len(vertices)
             nodes == [i \in 1..Len(face.nodes) |-> Node(face, i)]
             face_indices(t) == <<base_vertex_index + t[1] - 1,
                                  base_vertex_index + t[2] - 1,
                                  base_vertex_index + t[3] - 1>>
             oriented(fi) == IF face.reversed THEN <<fi[1], fi[3], fi[2]>> ELSE fi
             emitted == [j \in 1..Len(face.triangles) |->
                            oriented(face_indices(face.triangles[j]))]
         IN  STEPConverterOCPExplore(kfaces, k + 1, vertices \o nodes, faces \o emitted)

\* IGESConverter.read from the k-th face on (lines 58-103): the same loop.
RECURSIVE IGESConverterExplore(_, _, _, _)
IGESConverterExplore(kfaces, k, vertices, faces) ==
    IF k > Len(kfaces)
    THEN [kind |-> "return", vertices |-> vertices, faces |-> faces]
    ELSE LET face == kfaces[k]
             base_vertex_index == Len(vertices)
             nodes == [i \in 1..Len(face.nodes) |-> Node(face, i)]
             face_indices(t) == <<base_vertex_index + t[1] - 1,
                                  base_vertex_index + t[2] - 1,
                                  base_vertex_index + t[3] - 1>>
             oriented(fi) == IF face.reversed THEN <<fi[1], fi[3], fi[2]>> ELSE fi
             emitted == [j \in 1..Len(face.triangles) |->
                            oriented(face_indices(face.triangles[j]))]
         IN  IGESConverterExplore(kfaces, k + 1, vertices \o nodes, faces \o emitted)

\* The node loop of STEPConverter._read_with_opencascade from node i on
\* (lines 83-100): a position that is not a key of vertex_map yet is
\* appended to vertices and mapped to its index; vertex_index is
\* len(vertices) throughout.  m is the pair of vertices and vertex_map.
RECURSIVE GetVertices(_, _, _)
GetVertices(face, i, m) ==
    IF i > Len(face.nodes) THEN m
    ELSE LET vertex_key == Node(face, i)
         IN  IF vertex_key \in DOMAIN m.vertex_map
             THEN GetVertices(face, i + 1, m)
             ELSE GetVertices(face, i + 1,
                      [vertices |-> Append(m.vertices, vertex_key),
                       vertex_map |-> [p \in DOMAIN m.vertex_map \cup {vertex_key} |->
                                          IF p = vertex_key THEN Len(m.vertices)
                                          ELSE m.vertex_map[p]]])

\* STEPConverter._read_with_opencascade from the k-th face on (lines 74-119);
\* the except clause at 136-138 raises the exception again.  In the triangle
\* loop (lines 103-117) n1, n2, n3 index the vertices list, where an index
\* past its end raises IndexError, and the positions found there are looked
\* up in vertex_map.
RECURSIVE ReadWithOpencascadeExplore(_, _, _, _)
ReadWithOpencascadeExplore(kfaces, k, m, faces) ==
    IF k > Len(kfaces)
    THEN [kind |-> "return", vertices |-> m.vertices, faces |-> faces]
    ELSE LET face == kfaces[k]
             got == GetVertices(face, 1, m)
             in_list(t) == \A c \in 1..3 : t[c] - 1 < Len(got.vertices)
             triangle(t) == [c \in 1..3 |-> got.vertex_map[got.vertices[t[c]]]]
         IN  IF \E j \in 1..Len(face.triangles) : ~in_list(face.triangles[j])
             THEN Raise("IndexError", "list index out of range")
             ELSE ReadWithOpencascadeExplore(kfaces, k + 1, got,
                      faces \o [j \in 1..Len(face.triangles) |->
                                   triangle(face.triangles[j])])

(* --------------------- app/services/conversion.py --------------------- *)

\* The placeholder convert_sync writes: OUTPUT_DIR/<base>.<output_format>,
\* the token as given, opened with mode "w" whether or not the path exists.
PlaceholderPath(input_path, output_format) ==
    <<BaseName(input_path), 0, output_format>>

\* The condition of convert_sync's fallback branch (line 41).
WritesPlaceholder == ~ENABLE_OPENCASCADE

\* ConversionService.convert_sync: the pipeline's result, or, when the
\* pipeline raised and the fallback branch is taken, the placeholder's path;
\* ph tells whether open(output_path, "w") succeeds.
ConvertSync(ups, fs, input_path, output_format, exp, ph) ==
    LET r == PipelineConvert(ups, fs, input_path, output_format, exp)
        path == PlaceholderPath(input_path, output_format)
        call(res, out, placeholder) ==
            [pipeline |-> r.result, result |-> res, placeholder |-> placeholder,
             outputs |-> out]
    IN  IF r.result.kind # "raise" THEN call(r.result, r.outputs, FALSE)
        ELSE IF WritesPlaceholder
        THEN IF ph
             THEN call(Return(path), [r.outputs EXCEPT ![path] = TRUE], TRUE)
             ELSE call(Raise("OSError", "cannot open placeholder"), r.outputs, FALSE)
        ELSE call(r.result, r.outputs, FALSE)

\* What a convert_sync call leaves in the history.
SyncHistory(c) ==
    [pipeline |-> c.pipeline, result |-> c.result, placeholder |-> c.placeholder]

\* An except clause that names one class only.
AsyncCatchesValueError(type) == type = "ValueError"

\* The exception classes convert_async's "except Exception" clause catches.
AsyncCatches(type) == TRUE

\* A record created in the accepted-but-not-dispatched state.
InProgressRecordPending(job_id) ==
    ConversionResponse(job_id, PENDING, "Conversion in progress", NoPath, None)

\* The record convert_async stores when it starts (lines 67-71).
InProgressRecord(job_id) ==
    ConversionResponse(job_id, IN_PROGRESS, "Conversion in progress", NoPath, None)

\* A COMPLETED record built without its output_file argument.
CompletedRecordNoFile(job_id, output_path) ==
    ConversionResponse(job_id, COMPLETED, "Conversion completed successfully",
                       NoPath, None)

\* The record convert_async stores when convert_sync returned (lines 81-86).
CompletedRecord(job_id, output_path) ==
    ConversionResponse(job_id, COMPLETED, "Conversion completed successfully",
                       output_path, None)

\* A FAILED record that also names the path a placeholder would have.
FailedRecordWithFile(job_id, msg) ==
    ConversionResponse(job_id, FAILED, "Conversion failed", <<job_id, 0, "stl">>, msg)

\* The record convert_async stores when convert_sync raised (lines 89-94).
FailedRecord(job_id, msg) ==
    ConversionResponse(job_id, FAILED, "Conversion failed", NoPath, msg)

\* A status query that drops the output_file of a file that is gone.
GetJobStatusResultChecked(job_id) ==
    IF jobs[job_id].output_file # NoPath /\ ~outputs[jobs[job_id].output_file]
    THEN [jobs[job_id] EXCEPT !.output_file = NoPath]
    ELSE jobs[job_id]

\* ConversionService.get_job_status: self.jobs.get(job_id).
GetJobStatusResult(job_id) == jobs[job_id]

\* A status query that creates the record it does not find (dict.setdefault).
GetJobStatusJobsSetDefault(job_id) ==
    IF jobs[job_id] = NotFound
    THEN [jobs EXCEPT ![job_id] =
             ConversionResponse(job_id, PENDING, "Conversion job queued for processing",
                                NoPath, None)]
    ELSE jobs

\* A status query that removes the record it returns (dict.pop).
GetJobStatusJobsPop(job_id) == [jobs EXCEPT ![job_id] = NotFound]

\* What get_job_status leaves in self.jobs.
GetJobStatusJobs(job_id) == jobs

\* convert_async up to the try statement: the job's record is replaced by an
\* IN_PROGRESS one, whatever it was.
ConvertAsyncBegin(job_id, input_path, output_format) ==
    /\ frame.pc = "idle"
    /\ jobs' = [jobs EXCEPT ![job_id] = InProgressRecord(job_id)]
    /\ frame' = [pc |-> "convert", job_id |-> job_id, input_path |-> input_path,
                 output_format |-> output_format]

\* convert_async called by a client of the service object.
ServiceConvertAsync(job_id, input_path, output_format) ==
    /\ ConvertAsyncBegin(job_id, input_path, output_format)
    /\ UNCHANGED <<uploads, outputs, ENABLE_OPENCASCADE, kernel, converts, next_id, queue,
                   escaped, sync, last_ack, last_poll, last_call,
                   cleanup, tree>>

\* convert_async's call of convert_sync (lines 74-79); the event loop is not
\* released meanwhile.
ConvertAsyncCall ==
    /\ frame.pc = "convert"
    /\ \E exp \in ExportOutcomes, ph \in BOOLEAN :
          LET c == ConvertSync(uploads, outputs, frame.input_path,
                               frame.output_format, exp, ph)
          IN  /\ c.result.kind # "out_of_bounds"
              /\ outputs' = c.outputs
              /\ sync' = SyncHistory(c)
    /\ frame' = [frame EXCEPT !.pc = "record"]
    /\ UNCHANGED <<jobs, uploads, ENABLE_OPENCASCADE, kernel, converts, next_id, queue,
                   escaped, last_ack, last_poll, last_call,
                   cleanup, tree>>

\* The rest of convert_async: the COMPLETED record, or the except clause's
\* FAILED record; then the coroutine ends and the event loop is free.
ConvertAsyncRecord ==
    /\ frame.pc = "record"
    /\ LET j == frame.job_id
           r == sync.result
           caught == r.kind = "return" \/ AsyncCatches(r.type)
       IN  /\ jobs' = IF r.kind = "return"
                      THEN [jobs EXCEPT ![j] = CompletedRecord(j, r.path)]
                      ELSE IF caught
                      THEN [jobs EXCEPT ![j] = FailedRecord(j, r.msg)]
                      ELSE jobs
           /\ escaped' = (escaped \/ ~caught)
    /\ frame' = NoFrame
    /\ sync' = NoSync
    /\ UNCHANGED <<uploads, outputs, ENABLE_OPENCASCADE, kernel, converts, next_id, queue,
                   last_ack, last_poll, last_call,
                   cleanup, tree>>

\* convert_sync called by a client of the service object.
ServiceConvertSync(input_path, output_format) ==
    /\ frame.pc = "idle"
    /\ \E exp \in ExportOutcomes, ph \in BOOLEAN :
          LET c == ConvertSync(uploads, outputs, input_path, output_format, exp, ph)
          IN  /\ c.result.kind # "out_of_bounds"
              /\ outputs' = c.outputs
              /\ sync' = SyncHistory(c)
    /\ frame' = [pc |-> "return", job_id |-> 0, input_path |-> input_path,
                 output_format |-> output_format]
    /\ UNCHANGED <<jobs, uploads, ENABLE_OPENCASCADE, kernel, converts, next_id, queue,
                   escaped, last_ack, last_poll, last_call,
                   cleanup, tree>>

\* The client has the path convert_sync returned, or its exception.
ServiceSyncReturn ==
    /\ frame.pc = "return"
    /\ frame' = NoFrame
    /\ sync' = NoSync
    /\ UNCHANGED <<jobs, uploads, outputs, ENABLE_OPENCASCADE, kernel, converts, next_id,
                   queue, escaped, last_ack, last_poll, last_call,
                   cleanup, tree>>

\* get_job_status, called by a client of the service object or by the
\* status endpoint (which answers 404 for None).
GetJobStatus(job_id) ==
    /\ frame.pc = "idle"
    /\ last_poll' = [job_id |-> job_id,
                     status |-> GetJobStatusResult(job_id).status,
                     output_file |-> GetJobStatusResult(job_id).output_file]
    /\ jobs' = GetJobStatusJobs(job_id)
    /\ UNCHANGED <<uploads, outputs, ENABLE_OPENCASCADE, kernel, converts, next_id, queue,
                   frame, escaped, sync, last_ack, last_call,
                   cleanup, tree>>

(* ------------------- app/api/endpoints/conversion.py ------------------ *)

\* The status convert_file answers an accepted asynchronous request with.
AsyncAckStatus == PENDING

\* convert_file: a request the two format checks let through (the others are
\* answered 400 before anything is written).  The upload is written under a
\* fresh uuid4; an asynchronous request is added to the background tasks and
\* acknowledged, a synchronous one runs convert_sync inside the handler.
ConvertFile(ext, kind, output_format, async_processing) ==
    /\ frame.pc = "idle"
    /\ next_id < MaxJobs
    /\ ext \in SUPPORTED_INPUT_FORMATS
    /\ output_format \in SUPPORTED_OUTPUT_FORMATS
    /\ LET job_id == next_id + 1
           written == [uploads EXCEPT ![job_id] = File(ext, kind)]
       IN  /\ next_id' = job_id
           /\ uploads' = written
           /\ IF async_processing
              THEN /\ queue' = queue \cup {[job_id |-> job_id, input_path |-> job_id,
                                            output_format |-> output_format]}
                   /\ last_ack' = [kind |-> "async", status |-> AsyncAckStatus]
                   /\ UNCHANGED <<outputs, sync, frame>>
              ELSE \E exp \in ExportOutcomes, ph \in BOOLEAN :
                      LET c == ConvertSync(written, outputs, job_id, output_format,
                                           exp, ph)
                      IN  /\ c.result.kind # "out_of_bounds"
                          /\ outputs' = c.outputs
                          /\ sync' = SyncHistory(c)
                          /\ frame' = [pc |-> "respond", job_id |-> job_id,
                                       input_path |-> job_id,
                                       output_format |-> output_format]
                          /\ UNCHANGED <<queue, last_ack>>
    /\ UNCHANGED <<jobs, ENABLE_OPENCASCADE, kernel, converts, escaped, last_poll, last_call,
                   cleanup, tree>>

\* A synchronous convert_file that files its response in the job map.
ConvertFileRespondStored ==
    /\ frame.pc = "respond"
    /\ last_ack' = IF sync.result.kind = "return"
                   THEN [kind |-> "sync", status |-> COMPLETED]
                   ELSE [kind |-> "http500", status |-> None]
    /\ jobs' = IF sync.result.kind = "return"
               THEN [jobs EXCEPT ![frame.job_id] =
                        CompletedRecord(frame.job_id, sync.result.path)]
               ELSE jobs
    /\ frame' = NoFrame
    /\ sync' = NoSync
    /\ UNCHANGED <<uploads, outputs, ENABLE_OPENCASCADE, kernel, converts, next_id,
                   queue, escaped, last_poll, last_call,
                   cleanup, tree>>

\* The end of a synchronous convert_file: the COMPLETED response with the
\* path convert_sync returned, or HTTP 500 when it raised.
ConvertFileRespond ==
    /\ frame.pc = "respond"
    /\ last_ack' = IF sync.result.kind = "return"
                   THEN [kind |-> "sync", status |-> COMPLETED]
                   ELSE [kind |-> "http500", status |-> None]
    /\ frame' = NoFrame
    /\ sync' = NoSync
    /\ UNCHANGED <<jobs, uploads, outputs, ENABLE_OPENCASCADE, kernel, converts, next_id,
                   queue, escaped, last_poll, last_call,
                   cleanup, tree>>

\* A background task of convert_file starts: BackgroundTasks awaits the
\* coroutine function convert_async on the event loop after the response.
BackgroundStart ==
    \E t \in queue :
        /\ ConvertAsyncBegin(t.job_id, t.input_path, t.output_format)
        /\ queue' = queue \ {t}
        /\ UNCHANGED <<uploads, outputs, ENABLE_OPENCASCADE, kernel, converts, next_id,
                       escaped, sync, last_ack, last_poll, last_call,
                       cleanup, tree>>

\* The two format checks of convert_file (lines 30-41) on the extension of
\* the uploaded file's name and the output_format parameter: the extension
\* is lowered, the token is compared as given.
ConvertFileChecks(ext, output_format) ==
    IF Lower(ext) \notin SUPPORTED_INPUT_FORMATS THEN "400 Unsupported input format"
    ELSE IF output_format \notin SUPPORTED_OUTPUT_FORMATS
    THEN "400 Unsupported output format"
    ELSE "accepted"

\* What GET /formats lists (formats.py lines 9-12).
GetSupportedFormats ==
    [input_formats |-> SUPPORTED_INPUT_FORMATS,
     output_formats |-> SUPPORTED_OUTPUT_FORMATS]

\* An HTTPException of download_result, or its FileResponse (code "200").
HttpAnswer(code, detail, path) == [code |-> code, detail |-> detail, path |-> path]

\* A download that trusts the record and does not look for the file.
DownloadResultUnchecked(job_id) ==
    LET status == GetJobStatusResult(job_id)
    IN  IF status = NotFound THEN HttpAnswer("404", "Job not found", NoPath)
        ELSE IF status.status # COMPLETED
        THEN HttpAnswer("400", "Job is not completed", NoPath)
        ELSE HttpAnswer("200", None, status.output_file)

\* What download_result answers for job_id (lines 96-114).
DownloadResult(job_id) ==
    LET status == GetJobStatusResult(job_id)
    IN  IF status = NotFound THEN HttpAnswer("404", "Job not found", NoPath)
        ELSE IF status.status # COMPLETED
        THEN HttpAnswer("400", "Job is not completed", NoPath)
        ELSE IF status.output_file = NoPath \/ ~outputs[status.output_file]
        THEN HttpAnswer("404", "Output file not found", NoPath)
        ELSE HttpAnswer("200", None, status.output_file)

\* download_result: a handler of the event loop that reads the record through
\* get_job_status and looks for the file.
Download(job_id) ==
    /\ frame.pc = "idle"
    /\ last_call' = [op |-> "download", job_id |-> job_id,
                     answer |-> DownloadResult(job_id)]
    /\ jobs' = GetJobStatusJobs(job_id)
    /\ UNCHANGED <<uploads, outputs, ENABLE_OPENCASCADE, kernel, converts, next_id, queue,
                   frame, escaped, sync, last_ack, last_poll,
                   cleanup, tree>>

(* --------------------- app/services/file_cleanup.py ------------------- *)

\* The files that exist, uploads as <<"u", job id>> and outputs as <<"o", path>>.
ExistingFiles ==
    {<<"u", j>> : j \in {i \in JobIds : uploads[i].exists}}
        \cup {<<"o", p>> : p \in {q \in OutPaths : outputs[q]}}

\* One pass of _cleanup_loop over UPLOAD_DIR and OUTPUT_DIR, both flat here:
\* every file of expired, the files whose age exceeds the TTL, is unlinked.
\* The loop is a task of the same event loop and touches no job record.
ReaperCycle ==
    /\ frame.pc = "idle"
    /\ \E expired \in SUBSET ExistingFiles :
          /\ Cardinality(expired) <= MaxExpired
          /\ uploads' = [j \in JobIds |-> IF <<"u", j>> \in expired THEN NoFile
                                          ELSE uploads[j]]
          /\ outputs' = [p \in OutPaths |-> outputs[p] /\ <<"o", p>> \notin expired]
    /\ UNCHANGED <<jobs, ENABLE_OPENCASCADE, kernel, converts, next_id, queue, frame,
                   escaped, sync, last_ack, last_poll, last_call,
                   cleanup, tree>>

\* The directory nested in d, and whether the model has one.
Child(d) == <<d[1], d[2] + 1>>

HasChild(d) == Child(d) \in Dirs

\* An expiry test that takes a file whose stat fails for expired.
IsFileExpiredOnError(file) == file \in {"expired", "unreadable"}

\* _is_file_expired: age > ttl_seconds, and False when stat raises OSError.
IsFileExpired(file) == file = "expired"

\* not any(item.iterdir()): neither a file nor a subdirectory in d.
IsEmpty(t, d) ==
    /\ t[d].file = "absent"
    /\ HasChild(d) => ~t[Child(d)].exists

\* The operations that can raise OSError in a cycle: item.unlink() on the
\* file of a directory, item.rmdir() on a directory, and listing a directory
\* with iterdir().
FaultSites == {"unlink", "rmdir", "list"} \X Dirs

FaultSets == {F \in SUBSET FaultSites : Cardinality(F) <= MaxFaults}

\* The state _clean_directory leaves, the count it returns, and errors, the
\* operations that raised OSError in it.
Cleaned(t, cleaned_files, count, errors) ==
    [tree |-> t, cleaned_files |-> cleaned_files, count |-> count,
     errors |-> errors]

\* A count that leaves out what the recursive call returned.
AddCountOwn(cleaned_count, sub_count) == cleaned_count

\* cleaned_count += self._clean_directory(item).
AddCount(cleaned_count, sub_count) == cleaned_count + sub_count

\* A set that gets the path before the unlink is tried.
MarkAttempted(cf, d, attempted, unlinked) ==
    IF attempted THEN cf \cup {d} ELSE cf

\* self._cleaned_files.add(file_key), the statement after item.unlink():
\* reached when unlink was attempted and did not raise.
MarkCleaned(cf, d, attempted, unlinked) ==
    IF unlinked THEN cf \cup {d} ELSE cf

\* _clean_directory on directory d of the tree t with the set
\* self._cleaned_files = cf.  The file is unlinked when it is expired and its
\* path is not in cf; the subdirectory is cleaned and then removed when
\* listing it finds nothing.  An OSError of unlink is logged, one of
\* iterdir() or rmdir() on the subdirectory is passed over, and one of
\* listing d itself ends the call with the count so far.
RECURSIVE CleanDirectory(_, _, _, _)
CleanDirectory(t, cf, d, faults) ==
    IF ~t[d].exists THEN Cleaned(t, cf, 0, {})
    ELSE IF <<"list", d>> \in faults THEN Cleaned(t, cf, 0, {<<"list", d>>})
    ELSE LET expired == IsFileExpired(t[d].file) /\ d \notin cf
             unlinked == expired /\ <<"unlink", d>> \notin faults
             t1 == IF unlinked THEN [t EXCEPT ![d].file = "absent"] ELSE t
             cf1 == MarkCleaned(cf, d, expired, unlinked)
             n1 == IF unlinked THEN 1 ELSE 0
             e1 == IF expired /\ ~unlinked THEN {<<"unlink", d>>} ELSE {}
         IN  IF ~(HasChild(d) /\ t[Child(d)].exists) THEN Cleaned(t1, cf1, n1, e1)
             ELSE LET item == Child(d)
                      sub == CleanDirectory(t1, cf1, item, faults)
                      empty == /\ <<"list", item>> \notin faults
                               /\ IsEmpty(sub.tree, item)
                      removed == empty /\ <<"rmdir", item>> \notin faults
                      e2 == IF empty /\ ~removed THEN {<<"rmdir", item>>} ELSE {}
                  IN  Cleaned(IF removed THEN [sub.tree EXCEPT ![item] = NoDir]
                                         ELSE sub.tree,
                              sub.cleaned_files, AddCount(n1, sub.count),
                              e1 \cup sub.errors \cup e2)

\* A cycle that keeps every path it has deleted in the set.
PruneKeepAll(t, cf) == cf

\* A prune that keeps every path whose directory is still there.
PruneUnlessDirectoryGone(t, cf) == {d \in cf : t[d].exists}

\* The paths the loop keeps in self._cleaned_files at the end of a cycle
\* (lines 86-90): those that exist and hold a file that is not expired.
Prune(t, cf) ==
    {d \in cf : t[d].exists /\ t[d].file # "absent" /\ ~IsFileExpired(t[d].file)}

\* The for loop of _cleanup_loop from directories[i] on: every directory
\* that exists is cleaned, and counts holds what each call returned.
RECURSIVE CleanDirectories(_, _, _, _, _)
CleanDirectories(t, cf, i, faults, done) ==
    IF i > Len(directories)
    THEN [tree |-> t, cleaned_files |-> cf, counts |-> done.counts,
          errors |-> done.errors]
    ELSE LET r == CleanDirectory(t, cf, directories[i], faults)
         IN  CleanDirectories(r.tree, r.cleaned_files, i + 1, faults,
                              [counts |-> [done.counts EXCEPT ![i] = r.count],
                               errors |-> done.errors \cup r.errors])

\* A cycle that also removes every configured directory it finds empty.
CleanupCycleRemovesRoots(t, cf, faults) ==
    LET r == CleanDirectories(t, cf, 1, faults,
                              [counts |-> [i \in DOMAIN directories |-> 0],
                               errors |-> {}])
        swept == [d \in Dirs |-> IF d[2] = 0 /\ r.tree[d].exists /\ IsEmpty(r.tree, d)
                                 THEN NoDir ELSE r.tree[d]]
    IN  [tree |-> swept, cleaned_files |-> Prune(swept, r.cleaned_files),
         counts |-> r.counts, errors |-> r.errors,
         added |-> r.cleaned_files \ cf]

\* The body of one iteration of _cleanup_loop: the for loop, then the
\* pruning of self._cleaned_files.
CleanupCycle(t, cf, faults) ==
    LET r == CleanDirectories(t, cf, 1, faults,
                              [counts |-> [i \in DOMAIN directories |-> 0],
                               errors |-> {}])
    IN  [tree |-> r.tree, cleaned_files |-> Prune(r.tree, r.cleaned_files),
         counts |-> r.counts, errors |-> r.errors,
         added |-> r.cleaned_files \ cf]

\* A cleanup loop task: "created" by create_task and not run yet, "sleeping"
\* in asyncio.sleep(300), "ready" to go on when the sleep is over, or
\* "done"; cancel says that cancel() was called on it and the CancelledError
\* is not delivered yet.
Task(state, cancel) == [state |-> state, cancel |-> cancel]

\* A start() without the test of self.running.
StartAlways ==
    /\ Len(cleanup.tasks) < MaxTasks
    /\ cleanup' = [cleanup EXCEPT
                       !.running = TRUE,
                       !._task = Len(cleanup.tasks) + 1,
                       !.tasks = Append(cleanup.tasks, Task("created", FALSE))]
    /\ last_call' = [op |-> "start", created |-> TRUE]
    /\ UNCHANGED <<jobs, uploads, outputs, ENABLE_OPENCASCADE, kernel, converts, next_id, queue,
                   frame, escaped, sync, last_ack, last_poll, tree>>

\* start(): a warning and nothing else while running; else running is set
\* and the loop task created.
Start ==
    /\ IF cleanup.running
       THEN /\ cleanup' = cleanup
            /\ last_call' = [op |-> "start", created |-> FALSE]
       ELSE /\ Len(cleanup.tasks) < MaxTasks
            /\ cleanup' = [cleanup EXCEPT
                               !.running = TRUE,
                               !._task = Len(cleanup.tasks) + 1,
                               !.tasks = Append(cleanup.tasks, Task("created", FALSE))]
            /\ last_call' = [op |-> "start", created |-> TRUE]
    /\ UNCHANGED <<jobs, uploads, outputs, ENABLE_OPENCASCADE, kernel, converts, next_id, queue,
                   frame, escaped, sync, last_ack, last_poll, tree>>

\* stop() up to its await: nothing while not running; else running is
\* cleared, the task is cancelled and the call waits for it.
StopCall ==
    /\ IF ~cleanup.running
       THEN /\ cleanup' = cleanup
            /\ last_call' = [op |-> "stop", cancelled |-> 0]
       ELSE /\ cleanup' = [cleanup EXCEPT
                               !.running = FALSE,
                               !.tasks[cleanup._task].cancel =
                                   cleanup.tasks[cleanup._task].state # "done",
                               !.awaiting = @ \cup {cleanup._task}]
            /\ last_call' = [op |-> "stop", cancelled |-> cleanup._task]
    /\ UNCHANGED <<jobs, uploads, outputs, ENABLE_OPENCASCADE, kernel, converts, next_id, queue,
                   frame, escaped, sync, last_ack, last_poll, tree>>

\* A stop() that returns without waiting for the task it cancelled.
StopReturnEarly(t) ==
    /\ t \in cleanup.awaiting
    /\ cleanup' = [cleanup EXCEPT !.awaiting = @ \ {t}]
    /\ last_call' = [op |-> "stop_return", task |-> t]
    /\ UNCHANGED <<jobs, uploads, outputs, ENABLE_OPENCASCADE, kernel, converts, next_id, queue,
                   frame, escaped, sync, last_ack, last_poll, tree>>

\* stop() from its await on: "await self._task" ends when the task is done,
\* the CancelledError it raises is caught, and stop() returns.
StopReturn(t) ==
    /\ t \in cleanup.awaiting
    /\ cleanup.tasks[t].state = "done"
    /\ cleanup' = [cleanup EXCEPT !.awaiting = @ \ {t}]
    /\ last_call' = [op |-> "stop_return", task |-> t]
    /\ UNCHANGED <<jobs, uploads, outputs, ENABLE_OPENCASCADE, kernel, converts, next_id, queue,
                   frame, escaped, sync, last_ack, last_poll, tree>>

\* The 300 seconds of asyncio.sleep are over for the task t, which nobody
\* cancelled in its sleep.
SleepEnds(t) ==
    /\ t \in DOMAIN cleanup.tasks
    /\ cleanup.tasks[t] = Task("sleeping", FALSE)
    /\ cleanup' = [cleanup EXCEPT !.tasks[t].state = "ready"]
    /\ UNCHANGED <<jobs, uploads, outputs, ENABLE_OPENCASCADE, kernel, converts, next_id, queue,
                   frame, escaped, sync, last_ack, last_poll, last_call, tree>>

\* The loop task t runs from its start, or from the end of its sleep, to its
\* next await: when self.running holds it runs one cycle, the operations of
\* faults raising OSError, and sleeps; else it leaves the while loop and is
\* done.  A cancelled task does not get here.
LoopStep(t, faults) ==
    /\ t \in DOMAIN cleanup.tasks
    /\ cleanup.tasks[t].state \in {"created", "ready"}
    /\ ~cleanup.tasks[t].cancel
    /\ IF cleanup.running
       THEN LET r == CleanupCycle(tree, cleanup._cleaned_files, faults)
            IN  /\ tree' = r.tree
                /\ cleanup' = [cleanup EXCEPT !._cleaned_files = r.cleaned_files,
                                              !.tasks[t].state = "sleeping"]
                /\ last_call' = [op |-> "cycle", task |-> t, counts |-> r.counts,
                                 errors |-> r.errors, added |-> r.added]
       ELSE /\ cleanup' = [cleanup EXCEPT !.tasks[t].state = "done"]
            /\ UNCHANGED <<tree, last_call>>
    /\ UNCHANGED <<jobs, uploads, outputs, ENABLE_OPENCASCADE, kernel, converts, next_id, queue,
                   frame, escaped, sync, last_ack, last_poll>>

\* The CancelledError reaches the cancelled task t, at its start or in its
\* sleep: no handler of the loop catches it, and the task is done.
LoopCancelled(t) ==
    /\ t \in DOMAIN cleanup.tasks
    /\ cleanup.tasks[t].state \in {"created", "sleeping", "ready"}
    /\ cleanup.tasks[t].cancel
    /\ cleanup' = [cleanup EXCEPT !.tasks[t] = Task("done", FALSE)]
    /\ UNCHANGED <<jobs, uploads, outputs, ENABLE_OPENCASCADE, kernel, converts, next_id, queue,
                   frame, escaped, sync, last_ack, last_poll, last_call, tree>>

\* sum(1 for _ in directory.rglob("*") if _.is_file()): the files in the
\* configured directory root and below it.
FileCount(root) ==
    Cardinality({d \in Dirs : d[1] = root[1] /\ tree[d].file # "absent"})

\* The dict get_stats returns when rglob raises OSError for the directories
\* of failing: the four fixed entries, and for every configured directory
\* that exists its file count, or -1 for the string "error".
Stats(failing) ==
    [running |-> cleanup.running,
     ttl_minutes |-> cleanup.ttl_seconds \div 60,
     directories |-> cleanup.directories,
     cleaned_files_count |-> Cardinality(cleanup._cleaned_files),
     file_count |->
         [i \in {k \in DOMAIN cleanup.directories : tree[cleanup.directories[k]].exists}
             |-> IF i \in failing THEN -1 ELSE FileCount(cleanup.directories[i])]]

\* A get_stats that clears self.running before it reports.
GetStatsStopping(failing) ==
    /\ cleanup' = [cleanup EXCEPT !.running = FALSE]
    /\ last_call' = [op |-> "get_stats", stats |-> Stats(failing)]
    /\ UNCHANGED <<jobs, uploads, outputs, ENABLE_OPENCASCADE, kernel, converts, next_id, queue,
                   frame, escaped, sync, last_ack, last_poll, tree>>

\* get_stats: a synchronous method that builds and returns the dict.
GetStats(failing) ==
    /\ last_call' = [op |-> "get_stats", stats |-> Stats(failing)]
    /\ UNCHANGED <<jobs, uploads, outputs, ENABLE_OPENCASCADE, kernel, converts, next_id, queue,
                   frame, escaped, sync, last_ack, last_poll, cleanup, tree>>

\* A directory is made: a configured directory, or a subdirectory of a
\* directory that exists.
MkDir(d) ==
    /\ ~tree[d].exists
    /\ d[2] > 0 => tree[<<d[1], d[2] - 1>>].exists
    /\ tree' = [tree EXCEPT ![d] = Dir("absent")]
    /\ UNCHANGED <<jobs, uploads, outputs, ENABLE_OPENCASCADE, kernel, converts, next_id, queue,
                   frame, escaped, sync, last_ack, last_poll, last_call, cleanup>>

\* A file is written at the path of directory d, new or over the one there:
\* fresh, with a modification time older than the TTL, or such that stat
\* on it fails.
WriteFile(d, file) ==
    /\ tree[d].exists
    /\ tree[d].file # file
    /\ tree' = [tree EXCEPT ![d].file = file]
    /\ UNCHANGED <<jobs, uploads, outputs, ENABLE_OPENCASCADE, kernel, converts, next_id, queue,
                   frame, escaped, sync, last_ack, last_poll, last_call, cleanup>>

(* ------------------------------ behaviours ---------------------------- *)

\* The input paths the clients of the service object pass: one path, so that
\* repeated conversions meet each other's output files.
ServiceInputs == {1}

\* A client writes the file it is going to pass to the service.
WriteInput(input_path, ext, kind) ==
    /\ frame.pc = "idle"
    /\ uploads' = [uploads EXCEPT ![input_path] = File(ext, kind)]
    /\ UNCHANGED <<jobs, outputs, ENABLE_OPENCASCADE, kernel, converts, next_id, queue, frame,
                   escaped, sync, last_ack, last_poll, last_call,
                   cleanup, tree>>

\* The operations of ConversionService, called by clients of the object.
NextService ==
    \/ \E i \in ServiceInputs, f \in InputFiles : WriteInput(i, f[1], f[2])
    \/ \E j \in JobIds, i \in ServiceInputs, fmt \in OutputFormats :
          ServiceConvertAsync(j, i, fmt)
    \/ ConvertAsyncCall
    \/ ConvertAsyncRecord
    \/ \E i \in ServiceInputs, fmt \in OutputFormats : ServiceConvertSync(i, fmt)
    \/ ServiceSyncReturn
    \/ \E j \in JobIds : GetJobStatus(j)

SpecService == Init /\ [][NextService]_vars

\* The HTTP handlers, the background tasks they start and the reaper.
NextApi ==
    \/ \E f \in InputFiles, fmt \in OutputFormats, async_processing \in BOOLEAN :
          ConvertFile(f[1], f[2], fmt, async_processing)
    \/ ConvertFileRespond
    \/ BackgroundStart
    \/ ConvertAsyncCall
    \/ ConvertAsyncRecord
    \/ \E j \in JobIds : GetJobStatus(j)
    \/ ReaperCycle

SpecApi == Init /\ [][NextApi]_vars

\* Output tokens the clients of the pipeline pass: a registered one, the same
\* in upper case, and one without an exporter.
PipelineFormats == {"stl", "STL", "xyz"}

\* ConversionPipeline.convert called by a client of the pipeline object.
PipelineCall(input_path, output_format, exp) ==
    /\ frame.pc = "idle"
    /\ LET r == PipelineConvert(uploads, outputs, input_path, output_format, exp)
       IN  /\ r.result.kind # "out_of_bounds"
           /\ outputs' = r.outputs
           /\ last_call' = [op |-> "convert", input_path |-> input_path,
                            output_format |-> output_format, exp |-> exp,
                            result |-> r.result, steps |-> r.steps]
    /\ UNCHANGED <<jobs, uploads, ENABLE_OPENCASCADE, kernel, converts, next_id, queue, frame,
                   escaped, sync, last_ack, last_poll,
                   cleanup, tree>>

\* _generate_output_path called on the output directory as it is.
GenerateOutputPathCall(input_path, output_format) ==
    /\ frame.pc = "idle"
    /\ Lower(output_format) \in OutputFormats
    /\ GenerateOutputPath(outputs, input_path, output_format) # NoPath
    /\ last_call' = [op |-> "generate_output_path", input_path |-> input_path,
                     output_format |-> output_format,
                     path |-> GenerateOutputPath(outputs, input_path, output_format)]
    /\ UNCHANGED <<jobs, uploads, outputs, ENABLE_OPENCASCADE, kernel, converts, next_id, queue,
                   frame, escaped, sync, last_ack, last_poll,
                   cleanup, tree>>

\* exporter.export called with an output path of the caller's choice.
ExporterCall(path, exp) ==
    /\ frame.pc = "idle"
    /\ outputs' = Export(outputs, path, exp).outputs
    /\ last_call' = [op |-> "export", path |-> path, exp |-> exp,
                     result |-> Export(outputs, path, exp).result]
    /\ UNCHANGED <<jobs, uploads, ENABLE_OPENCASCADE, kernel, converts, next_id, queue, frame,
                   escaped, sync, last_ack, last_poll,
                   cleanup, tree>>

\* Files a client of the pipeline puts in place: those of the endpoint and
\* files with the other extensions of the STEP and IGES converters.
PipelineInputs == InputFiles \cup {<<"stp", "valid">>, <<"igs", "valid">>}

\* The pipeline, its path generator and its exporters, called directly, on
\* directories a client writes to and the reaper deletes from.
NextPipeline ==
    \/ \E i \in ServiceInputs, f \in PipelineInputs : WriteInput(i, f[1], f[2])
    \/ \E i \in ServiceInputs, fmt \in PipelineFormats, exp \in ExportOutcomes :
          PipelineCall(i, fmt, exp)
    \/ \E i \in ServiceInputs, fmt \in PipelineFormats : GenerateOutputPathCall(i, fmt)
    \/ \E i \in ServiceInputs, k \in 0 .. MaxCounter, fmt \in OutputFormats,
          exp \in ExportOutcomes : ExporterCall(<<i, k, fmt>>, exp)
    \/ ReaperCycle

SpecPipeline == Init /\ [][NextPipeline]_vars

\* A convert that reaches its step 3 whatever else the event loop has begun.
ConvertProbeAnyTime(c, input_path, output_format) ==
    /\ frame.pc = "idle"
    /\ converts[c].pc # "probed"
    /\ PipelineConvert(uploads, outputs, input_path, output_format, "ok").steps
           = <<"read", "validate", "probe", "export">>
    /\ converts' = [converts EXCEPT ![c] =
           [pc |-> "probed", input_path |-> input_path, output_format |-> output_format,
            path |-> GenerateOutputPath(outputs, input_path, output_format),
            wrote |-> FALSE]]
    /\ UNCHANGED <<jobs, uploads, outputs, ENABLE_OPENCASCADE, kernel, next_id, queue,
                   frame, escaped, sync, last_ack, last_poll, last_call,
                   cleanup, tree>>

\* Client c calls convert, which reads and validates the input and generates
\* the output path (lines 70-99).  convert is a plain function that every
\* caller in the service calls on the event loop, so a call begins only when
\* no other call is between its steps.
ConvertProbe(c, input_path, output_format) ==
    /\ frame.pc = "idle"
    /\ \A d \in Clients : converts[d].pc # "probed"
    /\ PipelineConvert(uploads, outputs, input_path, output_format, "ok").steps
           = <<"read", "validate", "probe", "export">>
    /\ converts' = [converts EXCEPT ![c] =
           [pc |-> "probed", input_path |-> input_path, output_format |-> output_format,
            path |-> GenerateOutputPath(outputs, input_path, output_format),
            wrote |-> FALSE]]
    /\ UNCHANGED <<jobs, uploads, outputs, ENABLE_OPENCASCADE, kernel, next_id, queue,
                   frame, escaped, sync, last_ack, last_poll, last_call,
                   cleanup, tree>>

\* The convert of client c goes on to exporter.export (lines 102-112) with
\* the path it generated.
ConvertExport(c, exp) ==
    /\ converts[c].pc = "probed"
    /\ LET x == Export(outputs, converts[c].path, exp)
       IN  /\ outputs' = x.outputs
           /\ converts' = [converts EXCEPT
                  ![c].pc = IF x.result.kind = "return" THEN "returned" ELSE "raised",
                  ![c].wrote = x.outputs[converts[c].path]]
           /\ last_call' = [op |-> "export_step", client |-> c, exp |-> exp,
                            path |-> converts[c].path,
                            existed |-> outputs[converts[c].path]]
    /\ UNCHANGED <<jobs, uploads, ENABLE_OPENCASCADE, kernel, next_id, queue,
                   frame, escaped, sync, last_ack, last_poll, cleanup, tree>>

\* Two clients of one pipeline object that convert files they have written.
NextTwoConverts ==
    \/ \E i \in ServiceInputs, f \in InputFiles : WriteInput(i, f[1], f[2])
    \/ \E c \in Clients, i \in ServiceInputs, fmt \in {"stl", "STL"} :
          ConvertProbe(c, i, fmt)
    \/ \E c \in Clients, exp \in ExportOutcomes : ConvertExport(c, exp)

SpecTwoConverts == Init /\ [][NextTwoConverts]_vars

\* A submission as far as the format checks of convert_file.
ConvertFileChecksCall(ext, output_format) ==
    /\ frame.pc = "idle"
    /\ last_call' = [op |-> "submit", ext |-> ext, output_format |-> output_format,
                     answer |-> ConvertFileChecks(ext, output_format)]
    /\ UNCHANGED <<jobs, uploads, outputs, ENABLE_OPENCASCADE, kernel, converts, next_id,
                   queue, frame, escaped, sync, last_ack, last_poll, cleanup, tree>>

\* GET /formats.
GetSupportedFormatsCall ==
    /\ frame.pc = "idle"
    /\ last_call' = [op |-> "formats", answer |-> GetSupportedFormats]
    /\ UNCHANGED <<jobs, uploads, outputs, ENABLE_OPENCASCADE, kernel, converts, next_id,
                   queue, frame, escaped, sync, last_ack, last_poll, cleanup, tree>>

\* Submissions with the extensions and tokens of the configuration and of
\* the registry, some in upper case and one unknown to both, and the listing.
NextFormats ==
    \/ \E ext \in SUPPORTED_INPUT_FORMATS \cup converters \cup {"STEP", "Igs", "xyz"},
          fmt \in SUPPORTED_OUTPUT_FORMATS \cup exporters \cup {"STL", "GLB", "xyz"} :
          ConvertFileChecksCall(ext, fmt)
    \/ GetSupportedFormatsCall

SpecFormats == Init /\ [][NextFormats]_vars

\* Faces the meshes are made of: a triangle, a face with a repeated index,
\* and a face with the index 3.
FaceSamples == {<<0, 1, 2>>, <<0, 0, 1>>, <<0, 1, 3>>}

\* The meshes the validator is given.
Meshes ==
    {MeshData(n, fs) : n \in 0 .. MaxVertices,
                       fs \in UNION {[1 .. k -> FaceSamples] : k \in 0 .. MaxFaces}}

\* _apply_mesh_controls called on a mesh, without decimation or smoothing.
ApplyMeshControlsCall(mesh_data) ==
    /\ last_call' = [op |-> "validate", mesh |-> mesh_data,
                     result |-> ApplyMeshControls(mesh_data).result,
                     returned |-> ApplyMeshControls(mesh_data).mesh,
                     warned |-> ValidateMeshWarns(mesh_data)]
    /\ UNCHANGED <<jobs, uploads, outputs, ENABLE_OPENCASCADE, kernel, converts, next_id, queue,
                   frame, escaped, sync, last_ack, last_poll,
                   cleanup, tree>>

\* The validator applied to one mesh after another.
NextValidator == \E mesh_data \in Meshes : ApplyMeshControlsCall(mesh_data)

SpecValidator == Init /\ [][NextValidator]_vars

\* Preset names the callers pass: the four presets and an unknown name.
Qualities == {"low", "medium", "high", "ultra", "draft"}

\* Explicit values the callers pass, in thousandths: None, 0.0, 0.05, 0.2.
ExplicitValues == {Missing, Some(0), Some(50), Some(200)}

\* self.quality_presets after _get_quality_parameters: dict.get reads the
\* table and inserts nothing, for a known and for an unknown name alike.
QualityPresetsAfter(quality) == quality_presets

\* _get_quality_parameters called with a preset name and two optional values.
GetQualityParametersCall(quality, deflection, angular_deflection) ==
    /\ last_call' = [op |-> "quality", quality |-> quality,
                     deflection |-> deflection,
                     angular_deflection |-> angular_deflection,
                     result |-> GetQualityParameters(quality, deflection,
                                                     angular_deflection),
                     presets |-> QualityPresetsAfter(quality)]
    /\ UNCHANGED <<jobs, uploads, outputs, ENABLE_OPENCASCADE, kernel, converts, next_id, queue,
                   frame, escaped, sync, last_ack, last_poll,
                   cleanup, tree>>

\* Quality resolution applied to one request after another.
NextQuality ==
    \E quality \in Qualities, d \in ExplicitValues, a \in ExplicitValues :
        GetQualityParametersCall(quality, d, a)

SpecQuality == Init /\ [][NextQuality]_vars

\* Output tokens handed to _prepare_export_options, in several spellings.
ExportTokens ==
    {"stl", "stl_ascii", "stl_binary", "obj", "glb", "gltf",
     "STL", "Stl_Ascii", "GLB", "Gltf", "xyz"}

\* The options a caller of convert can pass on: any of the three keys, each
\* with a boolean value.
ExportKwargs ==
    UNION {[K -> BOOLEAN] :
             K \in SUBSET {"binary", "include_normals", "include_material"}}

\* _prepare_export_options called with an output token and the caller's
\* options.
PrepareExportOptionsCall(output_format, kwargs) ==
    /\ last_call' = [op |-> "export_options", output_format |-> output_format,
                     kwargs |-> kwargs,
                     result |-> PrepareExportOptions(output_format, kwargs)]
    /\ UNCHANGED <<jobs, uploads, outputs, ENABLE_OPENCASCADE, kernel, converts, next_id, queue,
                   frame, escaped, sync, last_ack, last_poll,
                   cleanup, tree>>

\* Export options derived for one request after another.
NextExportOptions ==
    \E output_format \in ExportTokens, kwargs \in ExportKwargs :
        PrepareExportOptionsCall(output_format, kwargs)

SpecExportOptions == Init /\ [][NextExportOptions]_vars

\* File extensions of input paths handed to convert, in several spellings;
\* "obj" and "xyz" are no keys of the converter registry.
DispatchExtensions ==
    {"step", "STEP", "stp", "iges", "igs", "Igs", "stl", "STL", "obj", "xyz"}

\* The options passed to convert in the dispatch runs: binary and
\* include_normals, each absent or boolean.
DispatchKwargs ==
    UNION {[K -> BOOLEAN] : K \in SUBSET {"binary", "include_normals"}}

\* convert called on an existing input file, as far as its dispatch.
DispatchCall(ext, output_format, kwargs) ==
    /\ last_call' = [op |-> "dispatch", ext |-> ext,
                     output_format |-> output_format, kwargs |-> kwargs,
                     result |-> Dispatch(ext, output_format, kwargs)]
    /\ UNCHANGED <<jobs, uploads, outputs, ENABLE_OPENCASCADE, kernel, converts, next_id, queue,
                   frame, escaped, sync, last_ack, last_poll,
                   cleanup, tree>>

\* Format dispatch for one request after another.
NextDispatch ==
    \E ext \in DispatchExtensions, output_format \in ExportTokens,
       kwargs \in DispatchKwargs :
        DispatchCall(ext, output_format, kwargs)

SpecDispatch == Init /\ [][NextDispatch]_vars

\* The file a converter is asked to read: one that starts with the STEP
\* header, one that does not, and a path with no file.
ConverterFiles == {"valid", "malformed", "missing"}

\* Tolerances passed to read, in thousandths.
Deflections == {1, 10, 100, 1000}

AngularDeflections == {50, 500}

\* What FreeCADCmd does for STEPConverterSafe on this machine.
Freecad == {"absent", "fails", "ok"}

\* BaseConverter._tessellate_with_params called by a converter.
TessellateWithParamsCall(deflection, angular_deflection) ==
    /\ last_call' = [op |-> "read", converter |-> "BaseConverter",
                     env |-> "none", file |-> "none",
                     deflection |-> deflection,
                     angular_deflection |-> angular_deflection,
                     result |-> TessellateWithParams(deflection, angular_deflection)]
    /\ UNCHANGED <<jobs, uploads, outputs, ENABLE_OPENCASCADE, kernel, converts, next_id, queue,
                   frame, escaped, sync, last_ack, last_poll,
                   cleanup, tree>>

\* STEPConverter.read on a converter built with or without pythonocc.
STEPConverterReadCall(has_opencascade, file, deflection, angular_deflection) ==
    /\ last_call' = [op |-> "read", converter |-> "STEPConverter",
                     env |-> IF has_opencascade THEN "occ" ELSE "no_occ",
                     file |-> file, deflection |-> deflection,
                     angular_deflection |-> angular_deflection,
                     result |-> STEPConverterRead(has_opencascade, file, deflection,
                                                  angular_deflection)]
    /\ UNCHANGED <<jobs, uploads, outputs, ENABLE_OPENCASCADE, kernel, converts, next_id, queue,
                   frame, escaped, sync, last_ack, last_poll,
                   cleanup, tree>>

\* STEPConverterSafe.read.
STEPConverterSafeReadCall(freecad, file, deflection, angular_deflection) ==
    /\ last_call' = [op |-> "read", converter |-> "STEPConverterSafe",
                     env |-> freecad, file |-> file, deflection |-> deflection,
                     angular_deflection |-> angular_deflection,
                     result |-> STEPConverterSafeRead(freecad, file, deflection,
                                                      angular_deflection)]
    /\ UNCHANGED <<jobs, uploads, outputs, ENABLE_OPENCASCADE, kernel, converts, next_id, queue,
                   frame, escaped, sync, last_ack, last_poll,
                   cleanup, tree>>

\* The converters that can answer with a synthetic mesh, called one after
\* another.
NextConverters ==
    \E file \in ConverterFiles, d \in Deflections, a \in AngularDeflections :
        \/ TessellateWithParamsCall(d, a)
        \/ \E has_opencascade \in BOOLEAN :
              STEPConverterReadCall(has_opencascade, file, d, a)
        \/ \E freecad \in Freecad : STEPConverterSafeReadCall(freecad, file, d, a)

SpecConverters == Init /\ [][NextConverters]_vars

\* The cleanup loop of a started service on directories that other
\* processes make and write files to.
NextReaper ==
    \/ Start
    \/ \E t \in 1 .. MaxTasks : SleepEnds(t)
    \/ \E t \in 1 .. MaxTasks, faults \in FaultSets : LoopStep(t, faults)
    \/ \E d \in Dirs : MkDir(d)
    \/ \E d \in Dirs, file \in {"fresh", "expired", "unreadable"} : WriteFile(d, file)

SpecReaper == Init /\ [][NextReaper]_vars

\* start() and stop() called by coroutines of one event loop in any order,
\* and the loop tasks they create and cancel, on a directory where expired
\* files keep appearing.
NextLifecycle ==
    \/ Start
    \/ StopCall
    \/ \E t \in 1 .. MaxTasks : StopReturn(t)
    \/ \E t \in 1 .. MaxTasks : SleepEnds(t)
    \/ \E t \in 1 .. MaxTasks, faults \in FaultSets : LoopStep(t, faults)
    \/ \E t \in 1 .. MaxTasks : LoopCancelled(t)
    \/ WriteFile(directories[1], "expired")
    \/ \E failing \in SUBSET DOMAIN directories : GetStats(failing)

SpecLifecycle == Init /\ [][NextLifecycle]_vars

\* Submissions, their background tasks, the reaper and downloads.
NextDownload ==
    \/ \E f \in InputFiles, fmt \in OutputFormats, async_processing \in BOOLEAN :
          ConvertFile(f[1], f[2], fmt, async_processing)
    \/ ConvertFileRespond
    \/ BackgroundStart
    \/ ConvertAsyncCall
    \/ ConvertAsyncRecord
    \/ ReaperCycle
    \/ \E j \in JobIds : Download(j)

SpecDownload == Init /\ [][NextDownload]_vars

\* The faces the converters are given: up to MaxNodes nodes at two
\* positions and up to MaxTriangles triangles among them.
KernelFaces ==
    LET triangles(n) == {t \in (1..n) \X (1..n) \X (1..n) : t[1] <= t[2] /\ t[2] <= t[3]}
    IN  UNION {{[nodes |-> ns, triangles |-> ts, moved |-> mv, reversed |-> FALSE] :
                   ns \in [1..n -> {0, 1}],
                   ts \in UNION {[1..c -> triangles(n)] : c \in 0..MaxTriangles},
                   mv \in BOOLEAN} : n \in 1..MaxNodes}

\* One read of a meshed shape whose faces all have the orientation
\* reversed.  A read keeps nothing between calls, so every read is taken
\* from the initial state.
ExploreCall(converter, shape, reversed) ==
    /\ last_call = NoCall
    /\ kernel
    /\ LET kfaces == [k \in DOMAIN shape |-> [shape[k] EXCEPT !.reversed = reversed]]
       IN  last_call' = [op |-> "read", converter |-> converter, kfaces |-> kfaces,
                         result |->
                             CASE converter = "STEPConverterOCP" ->
                                    STEPConverterOCPExplore(kfaces, 1, << >>, << >>)
                               [] converter = "IGESConverter" ->
                                    IGESConverterExplore(kfaces, 1, << >>, << >>)
                               [] converter = "STEPConverter" ->
                                    ReadWithOpencascadeExplore(kfaces, 1,
                                        [vertices |-> << >>, vertex_map |-> << >>],
                                        << >>)]
    /\ UNCHANGED <<jobs, uploads, outputs, ENABLE_OPENCASCADE, kernel, converts, next_id, queue,
                   frame, escaped, sync, last_ack, last_poll, cleanup, tree>>

NextAssembly ==
    /\ last_call = NoCall
    /\ \E converter \in {"STEPConverterOCP", "IGESConverter", "STEPConverter"},
          shape \in UNION {[1..n -> KernelFaces] : n \in 0..MaxKernelFaces},
          reversed \in BOOLEAN :
          ExploreCall(converter, shape, reversed)

SpecAssembly == Init /\ [][NextAssembly]_vars

(* ------------------------------- claims ------------------------------- *)

IsTerminal(rec) == rec.status \in {COMPLETED, FAILED}

\* NotFound before IN_PROGRESS before the terminal statuses.
Rank(status) ==
    CASE status = "not_found" -> 0
      [] status = PENDING -> 1
      [] status = IN_PROGRESS -> 2
      [] OTHER -> 3

\* The step that starts a convert_async call for job j.
StartsAsync(j) == frame.pc = "idle" /\ frame'.pc = "convert" /\ frame'.job_id = j

\* C1, as claimed: once a job's record is COMPLETED or FAILED, no operation of
\* the service changes its status.
C1_TerminalIsFinal ==
    [][\A j \in JobIds : IsTerminal(jobs[j]) => jobs'[j].status = jobs[j].status]_vars

\* C1, amended: once a job's record is COMPLETED or FAILED, the record stays
\* as it is under every operation of the service except a new convert_async
\* call with the same job_id.
C1_TerminalIsFinalUnlessResubmitted ==
    [][\A j \in JobIds :
          (IsTerminal(jobs[j]) /\ ~StartsAsync(j)) => jobs'[j] = jobs[j]]_vars

\* C1 witness: job j is terminal, was polled, and another job is in progress.
C1_Witness ==
    \E j \in JobIds, k \in JobIds :
        /\ j # k
        /\ IsTerminal(jobs[j])
        /\ last_poll.job_id = j
        /\ jobs[k].status = IN_PROGRESS

\* C2, as claimed: when the pipeline's convert raised during convert_async,
\* the job's record becomes FAILED with the raised error's message.
C2_PipelineErrorIsRecorded ==
    [][(frame.pc = "record" /\ sync.pipeline.kind = "raise") =>
          /\ jobs'[frame.job_id].status = FAILED
          /\ jobs'[frame.job_id].error = sync.pipeline.msg]_vars

\* C3, as claimed: convert_sync writes a placeholder only when the pipeline
\* failed because the kernel is missing; any other failure of the pipeline
\* is raised and no placeholder is written.
C3_PlaceholderOnlyWithoutKernel ==
    /\ sync.placeholder => (~kernel /\ sync.pipeline.msg = KernelMissing)
    /\ (sync.pipeline.kind = "raise" /\ (kernel \/ sync.pipeline.msg # KernelMissing))
          => (sync.result.kind = "raise" /\ ~sync.placeholder)

\* C4: no exception leaves convert_async: whatever convert_sync raised, the
\* call ends, the event loop is free again and the job's record is FAILED with
\* that exception's message.
C4_AsyncNeverRaises ==
    [][/\ ~escaped'
       /\ frame.pc = "record" =>
             /\ frame'.pc = "idle"
             /\ sync.result.kind = "raise" =>
                   /\ jobs'[frame.job_id].status = FAILED
                   /\ jobs'[frame.job_id].error = sync.result.msg]_vars

\* C4 witness: a call whose convert_sync raised has ended.
C4_Witness ==
    /\ frame.pc = "idle"
    /\ ~escaped
    /\ \E j \in JobIds : jobs[j].status = FAILED /\ jobs[j].error = "Input file not found"

\* C5: a convert_async call first stores IN_PROGRESS for its job_id, keeps it
\* while convert_sync runs, and stores exactly one of COMPLETED and FAILED as
\* its last step; when convert_sync returned a path, the record is COMPLETED
\* with that path as output_file.
C5_AsyncLifecycle ==
    [][\A j \in JobIds :
          /\ StartsAsync(j) => jobs'[j].status = IN_PROGRESS
          /\ (frame.pc = "convert" /\ frame.job_id = j) =>
                /\ jobs[j].status = IN_PROGRESS
                /\ jobs'[j] = jobs[j]
                /\ frame'.pc = "record"
          /\ (frame.pc = "record" /\ frame.job_id = j) =>
                /\ jobs[j].status = IN_PROGRESS
                /\ IsTerminal(jobs'[j])
                /\ frame'.pc = "idle"
                /\ sync.result.kind = "return" =>
                      /\ jobs'[j].status = COMPLETED
                      /\ jobs'[j].output_file = sync.result.path]_vars

\* C5 witness: a call has ended with the path of a file the pipeline wrote.
C5_Witness ==
    /\ frame.pc = "idle"
    /\ \E j \in JobIds :
          /\ jobs[j].status = COMPLETED
          /\ jobs[j].output_file # NoPath
          /\ outputs[jobs[j].output_file]

\* C6: a record of the job map has output_file set only if its status is
\* COMPLETED and error set only if its status is FAILED.
C6_FieldsMatchStatus ==
    \A j \in JobIds :
        /\ jobs[j].output_file # NoPath => jobs[j].status = COMPLETED
        /\ jobs[j].error # None => jobs[j].status = FAILED

\* C6 witness: one record is COMPLETED with a file and another FAILED with an
\* error.
C6_Witness ==
    \E j \in JobIds, k \in JobIds :
        /\ jobs[j].status = COMPLETED /\ jobs[j].output_file # NoPath
        /\ jobs[k].status = FAILED /\ jobs[k].error # None

\* C7, as claimed: neither the submit acknowledgement nor a status poll
\* reports PENDING.
C7_NeverPending == last_ack.status # PENDING /\ last_poll.status # PENDING

\* C7, amended: no job record is ever PENDING and no status poll reports
\* PENDING, the first status a job's record takes is IN_PROGRESS; the
\* acknowledgement of an asynchronous submission does report PENDING.
C7_NoPendingRecord ==
    [][/\ \A j \in JobIds :
             /\ jobs'[j].status # PENDING
             /\ (jobs[j] = NotFound /\ jobs'[j] # NotFound)
                   => jobs'[j].status = IN_PROGRESS
       /\ last_poll'.status # PENDING
       /\ last_ack'.kind = "async" => last_ack'.status = PENDING]_vars

\* C7 witness: an asynchronous submission was acknowledged and a poll has then
\* seen its job completed.
C7_Witness ==
    /\ last_ack.kind = "async"
    /\ last_poll.job_id = next_id
    /\ last_poll.status = COMPLETED

\* C8, as claimed: while a job's record is IN_PROGRESS, a status poll of any
\* job and the submission of another job can be served.
C8_JobsDoNotBlock ==
    (\E j \in JobIds : jobs[j].status = IN_PROGRESS) =>
        /\ \A k \in JobIds : ENABLED GetJobStatus(k)
        /\ next_id < MaxJobs => ENABLED ConvertFile("step", "valid", "stl", TRUE)

\* C9: with every job_id submitted once, the answers of successive status
\* polls of a job never go back: the record a poll reads never returns to an
\* earlier status, a poll answers with the record's status, and a poll that
\* follows a poll of the same job answers no earlier status.
C9_PollsOrdered ==
    [][/\ \A j \in JobIds : Rank(jobs'[j].status) >= Rank(jobs[j].status)
       /\ last_poll' # last_poll =>
             last_poll'.status = jobs[last_poll'.job_id].status
       /\ (last_poll.job_id # 0 /\ last_poll'.job_id = last_poll.job_id) =>
             Rank(last_poll'.status) >= Rank(last_poll.status)]_vars

\* C9 witness: a poll answered NotFound for a job whose record is terminal
\* now, so that the next poll of it answers a later status.
C9_Witness ==
    \E j \in JobIds :
        /\ last_poll.job_id = j
        /\ last_poll.status = "not_found"
        /\ jobs[j].status = FAILED

\* C10: once a poll has answered COMPLETED for a job, a poll of that job
\* answers COMPLETED with the same output_file, whatever other jobs were
\* submitted and whatever the reaper deleted since.
C10_OutputFileStable ==
    (last_poll.job_id # 0 /\ last_poll.status = COMPLETED) =>
        /\ GetJobStatusResult(last_poll.job_id).status = COMPLETED
        /\ GetJobStatusResult(last_poll.job_id).output_file = last_poll.output_file

\* C10 witness: the file a poll reported is gone and another job was
\* submitted after the job that was polled.
C10_Witness ==
    /\ last_poll.job_id # 0
    /\ last_poll.status = COMPLETED
    /\ ~outputs[last_poll.output_file]
    /\ last_poll.job_id < next_id
    /\ jobs[next_id] # NotFound

\* C11: a status poll of a job_id that has no record answers NotFound (404 at
\* the endpoint) and leaves the job map as it was; a job_id gets a record
\* only by the start of a convert_async call for it.
C11_UnknownJobNotFound ==
    [][\A j \in JobIds :
          /\ (GetJobStatus(j) /\ jobs[j] = NotFound) =>
                /\ last_poll'.job_id = j
                /\ last_poll'.status = "not_found"
                /\ jobs' = jobs
          /\ (jobs[j] = NotFound /\ jobs'[j] # NotFound) => StartsAsync(j)]_vars

\* C11 witness: a job_id that was never drawn was polled and answered
\* NotFound while another job has a record.
C11_Witness ==
    \E j \in JobIds, k \in JobIds :
        /\ j > next_id
        /\ last_poll.job_id = j
        /\ last_poll.status = "not_found"
        /\ jobs[j] = NotFound
        /\ jobs[k] # NotFound

\* C12: a synchronous conversion changes no job record, neither while
\* convert_sync runs nor when convert_file answers, whether it succeeds or
\* fails; a record changes only in a convert_async call for its own job_id.
C12_SyncLeavesJobMap ==
    [][/\ (frame'.pc = "respond" \/ frame.pc = "respond" \/ frame.pc = "convert")
             => jobs' = jobs
       /\ \A j \in JobIds :
             jobs'[j] # jobs[j] =>
                 \/ StartsAsync(j)
                 \/ frame.pc = "record" /\ frame.job_id = j]_vars

\* C12 witness: a synchronous request was answered COMPLETED, its file
\* exists, and its job_id has no record.
C12_Witness ==
    /\ frame.pc = "idle"
    /\ last_ack.kind = "sync"
    /\ next_id \in JobIds
    /\ jobs[next_id] = NotFound
    /\ outputs[<<next_id, 0, "stl">>]

\* C13: a download answers NotFound for a job_id without a record, NotReady
\* for a record that is not COMPLETED, NotFound for a COMPLETED record whose
\* output file does not exist, and the file of the record's output_file only
\* for a COMPLETED record whose file exists; it leaves the job map unchanged.
C13_DownloadAnswers ==
    [][\A j \in JobIds :
          Download(j) =>
              LET a == last_call'.answer
                  there == jobs[j].output_file # NoPath /\ outputs[jobs[j].output_file]
              IN  /\ jobs[j] = NotFound => (a.code = "404" /\ a.detail = "Job not found")
                  /\ (jobs[j] # NotFound /\ jobs[j].status # COMPLETED) => a.code = "400"
                  /\ (jobs[j].status = COMPLETED /\ ~there) =>
                        (a.code = "404" /\ a.detail = "Output file not found")
                  /\ a.code = "200" <=> (jobs[j].status = COMPLETED /\ there)
                  /\ a.code = "200" => a.path = jobs[j].output_file
                  /\ jobs' = jobs]_vars

\* C13 witness: a download of a COMPLETED job whose file the reaper deleted
\* was answered NotFound.
C13_Witness ==
    /\ last_call.op = "download"
    /\ jobs[last_call.job_id].status = COMPLETED
    /\ ~outputs[jobs[last_call.job_id].output_file]
    /\ last_call.answer.detail = "Output file not found"

\* The first unused path of base and fmt among the files fs, as the claim
\* describes it: counter 0 stands for base.fmt, counter k for base_k.fmt.
IsFirstUnused(fs, p, base, fmt) ==
    /\ p[1] = base
    /\ p[3] = fmt
    /\ ~fs[p]
    /\ \A k \in 0 .. (p[2] - 1) : fs[<<base, k, fmt>>]

\* C14: ConversionPipeline.convert raises the exception of the first step
\* that fails (missing input, input format without converter, output format
\* without exporter, converter, validation, exporter), returns a path only
\* when every step succeeded, and writes no file of its own for a failed
\* step: the only file a failed call can leave is what the exporter wrote.
C14_FailuresPropagate ==
    [][\A i \in ServiceInputs, fmt \in PipelineFormats, exp \in ExportOutcomes :
          PipelineCall(i, fmt, exp) =>
              LET f == uploads[i]
                  r == last_call'.result
                  dispatched == f.exists /\ f.ext \in converters
                                    /\ Lower(fmt) \in exporters
                  read == dispatched /\ ConverterRead(f).kind = "return"
                  valid == read /\ ValidateMesh(MeshOf(f)).kind = "return"
              IN  /\ ~f.exists => r = Raise("FileNotFoundError", "Input file not found")
                  /\ (f.exists /\ f.ext \notin converters) =>
                        r = Raise("ValueError", "Unsupported input format")
                  /\ (f.exists /\ f.ext \in converters /\ Lower(fmt) \notin exporters)
                        => r = Raise("ValueError", "Unsupported output format")
                  /\ (dispatched /\ ~read) => r = ConverterRead(f)
                  /\ (read /\ ~valid) => r = ValidateMesh(MeshOf(f))
                  /\ (valid /\ exp # "ok") => r = Raise("Exception", "Export failed")
                  /\ r.kind = "return" <=> (valid /\ exp = "ok")
                  /\ r.kind = "raise" =>
                        \A p \in OutPaths :
                            outputs'[p] # outputs[p] => (valid /\ exp = "fail_partial")]_vars

\* C14 witness: a call whose converter raised for want of the kernel has
\* returned that error and the output directory is still empty.
C14_Witness ==
    /\ last_call.op = "convert"
    /\ last_call.result = Raise("ValueError", KernelMissing)
    /\ \A p \in OutPaths : ~outputs[p]

C16_NoPartialFile ==
    [][\A p \in OutPaths, exp \in ExportOutcomes :
          (ExporterCall(p, exp) /\ last_call'.result.kind = "raise") =>
              (outputs'[p] => outputs[p])]_vars

\* C17, as claimed: a mesh the validator accepted has a vertex, has a face,
\* and every index of every face is below the number of vertices.
C17_ValidatedMeshWellFormed ==
    (last_call.op = "validate" /\ last_call.result.kind = "return") =>
        LET mesh_data == last_call.returned
        IN  /\ mesh_data.vertices > 0
            /\ Len(mesh_data.faces) > 0
            /\ \A i \in DOMAIN mesh_data.faces : \A c \in 1 .. 3 :
                  mesh_data.faces[i][c] < mesh_data.vertices

\* C18: the validator raises "no vertices" for a mesh without vertices,
\* whether or not it has faces, raises "no faces" for a mesh with vertices
\* and without faces, and accepts every other mesh, degenerate faces
\* included, returning it unchanged (a degenerate face only logs a warning).
C18_ValidatorVerdicts ==
    last_call.op = "validate" =>
        LET mesh_data == last_call.mesh
            r == last_call.result
        IN  /\ mesh_data.vertices = 0 => r = Raise("ValueError", "Mesh has no vertices")
            /\ (mesh_data.vertices > 0 /\ Len(mesh_data.faces) = 0) =>
                  r = Raise("ValueError", "Mesh has no faces")
            /\ (mesh_data.vertices > 0 /\ Len(mesh_data.faces) > 0) =>
                  /\ r.kind = "return"
                  /\ last_call.returned = mesh_data
                  /\ last_call.warned <=>
                        \E i \in DOMAIN mesh_data.faces : IsDegenerate(mesh_data.faces[i])

\* C18 witness: a mesh of a triangle and a degenerate face was accepted with
\* a warning.
C18_Witness ==
    /\ last_call.op = "validate"
    /\ last_call.mesh = MeshData(3, << <<0, 1, 2>>, <<0, 0, 1>> >>)
    /\ last_call.result.kind = "return"
    /\ last_call.warned

\* C19: when both explicit values are given, zero included, the resolution
\* returns exactly these two values whatever the preset name is.
C19_BothExplicitWin ==
    (/\ last_call.op = "quality"
     /\ last_call.deflection # Missing
     /\ last_call.angular_deflection # Missing) =>
        /\ last_call.result.deflection = last_call.deflection[1]
        /\ last_call.result.angular_deflection = last_call.angular_deflection[1]

\* C19 witness: both values were given, one of them zero, with an unknown
\* preset name.
C19_Witness ==
    /\ last_call.op = "quality"
    /\ last_call.quality = "draft"
    /\ last_call.deflection = Some(0)
    /\ last_call.angular_deflection = Some(200)
    /\ last_call.result = [deflection |-> 0, angular_deflection |-> 200]

\* The preset the claim's resolution falls back to: the named one, or medium
\* for an unknown name.
PresetTuple(quality) ==
    CASE quality = "low" -> [deflection |-> 1000, angular_deflection |-> 1000]
      [] quality = "high" -> [deflection |-> 10, angular_deflection |-> 100]
      [] quality = "ultra" -> [deflection |-> 1, angular_deflection |-> 50]
      [] OTHER -> [deflection |-> 100, angular_deflection |-> 500]

\* C20: when exactly one explicit value is given, the other field is the
\* preset's, and the given field is the given value unless that value is
\* zero, in which case it is the preset's as well.
C20_OneExplicitOverrides ==
    last_call.op = "quality" =>
        LET d == last_call.deflection
            a == last_call.angular_deflection
            r == last_call.result
            preset == PresetTuple(last_call.quality)
        IN  /\ (d # Missing /\ a = Missing) =>
                  /\ r.angular_deflection = preset.angular_deflection
                  /\ r.deflection = IF d[1] # 0 THEN d[1] ELSE preset.deflection
            /\ (d = Missing /\ a # Missing) =>
                  /\ r.deflection = preset.deflection
                  /\ r.angular_deflection =
                        IF a[1] # 0 THEN a[1] ELSE preset.angular_deflection

\* C20 witness: only the angular value was given, as zero, and both fields
\* came from the preset.
C20_Witness ==
    /\ last_call.op = "quality"
    /\ last_call.quality = "high"
    /\ last_call.deflection = Missing
    /\ last_call.angular_deflection = Some(0)
    /\ last_call.result = [deflection |-> 10, angular_deflection |-> 100]

\* The preset table as the constructor builds it, in thousandths.
PresetTable ==
    [q \in {"low", "medium", "high", "ultra"} |-> PresetTuple(q)]

\* C21: with no explicit value, quality resolution returns the pair of the
\* named preset (low 1.0/1.0, medium 0.1/0.5, high 0.01/0.1, ultra
\* 0.001/0.05) and the medium pair for any other name, and the preset table
\* is the same after the call.
C21_PresetWhenNothingExplicit ==
    (/\ last_call.op = "quality"
     /\ last_call.deflection = Missing
     /\ last_call.angular_deflection = Missing)
    => /\ last_call.result = PresetTuple(last_call.quality)
       /\ last_call.presets = PresetTable

\* An unknown preset name resolved with no explicit value.
C21_Witness ==
    /\ last_call.op = "quality"
    /\ last_call.quality = "draft"
    /\ last_call.deflection = Missing
    /\ last_call.angular_deflection = Missing
    /\ last_call.result = [deflection |-> 100, angular_deflection |-> 500]

\* C22: the export options follow the output token: stl_ascii gives
\* binary = false whatever the caller passes; stl and stl_binary give the
\* caller's binary option when there is one and binary = true otherwise; glb
\* gives binary = true and gltf binary = false whatever the caller passes.
C22_ExportOptionsFollowToken ==
    last_call.op = "export_options" =>
        LET token == last_call.output_format
            given == last_call.kwargs
            options == last_call.result
        IN  /\ token \in {"stl", "stl_ascii", "stl_binary", "glb", "gltf"}
                 => DOMAIN options = {"binary"}
            /\ token = "stl_ascii" => options["binary"] = FALSE
            /\ (token \in {"stl", "stl_binary"} /\ "binary" \in DOMAIN given)
                 => options["binary"] = given["binary"]
            /\ (token \in {"stl", "stl_binary"} /\ "binary" \notin DOMAIN given)
                 => options["binary"] = TRUE
            /\ token = "glb" => options["binary"] = TRUE
            /\ token = "gltf" => options["binary"] = FALSE

\* An stl_ascii export asked for with binary = true.
C22_Witness ==
    /\ last_call.op = "export_options"
    /\ last_call.output_format = "stl_ascii"
    /\ "binary" \in DOMAIN last_call.kwargs
    /\ last_call.kwargs["binary"] = TRUE
    /\ last_call.result["binary"] = FALSE

\* The lowercase form of each spelling the model draws, written out.
LowercaseForm ==
    [STEP |-> "step", Igs |-> "igs", STL |-> "stl", Stl_Ascii |-> "stl_ascii",
     GLB |-> "glb", Gltf |-> "gltf"]

Lowercased(s) == IF s \in DOMAIN LowercaseForm THEN LowercaseForm[s] ELSE s

\* The registered names: input extensions and output tokens.
RegisteredExtensions == {"step", "stp", "iges", "igs", "stl"}

RegisteredTokens == {"stl", "stl_ascii", "stl_binary", "obj", "glb", "gltf"}

\* C23: convert dispatches on the lowercase form: any spelling of a
\* registered extension and of a registered token selects the converter, the
\* exporter and the export options that the lowercase spellings select, and a
\* string that is no registered name after lowercasing fails with an
\* unsupported-format ValueError.
C23_DispatchIgnoresCase ==
    last_call.op = "dispatch" =>
        LET ext == last_call.ext
            token == last_call.output_format
            r == last_call.result
        IN  /\ (Lowercased(ext) \in RegisteredExtensions
                  /\ Lowercased(token) \in RegisteredTokens)
                 => /\ r.kind = "selected"
                    /\ r = Dispatch(Lowercased(ext), Lowercased(token),
                                    last_call.kwargs)
            /\ Lowercased(ext) \notin RegisteredExtensions
                 => r = Raise("ValueError", "Unsupported input format")
            /\ (Lowercased(ext) \in RegisteredExtensions
                  /\ Lowercased(token) \notin RegisteredTokens)
                 => r = Raise("ValueError", "Unsupported output format")

\* An upper-case extension and a mixed-case token dispatched to the STEP
\* converter and the STL exporter with binary = false.
C23_Witness ==
    /\ last_call.op = "dispatch"
    /\ last_call.ext = "STEP"
    /\ last_call.output_format = "Stl_Ascii"
    /\ last_call.result.kind = "selected"
    /\ last_call.result.converter = "STEPConverterOCP"
    /\ last_call.result.exporter = "STLExporter"
    /\ last_call.result.options["binary"] = FALSE

\* C24: a synthetic box that a converter returns in place of the file's
\* geometry has placeholder = true in its metadata.
C24_PlaceholderIsTagged ==
    (/\ last_call.op = "read"
     /\ last_call.result.kind = "mesh"
     /\ last_call.result.geometry \in {"unit_cube", "box_100"})
    => /\ "placeholder" \in DOMAIN last_call.result.metadata
       /\ last_call.result.metadata["placeholder"] = TRUE

\* C25: when the geometry kernel cannot be imported, the converter registered
\* for a STEP or IGES file raises and returns no mesh, and convert raises
\* that error and exports nothing: the output directory is as it was.
C25_FailsClosedWithoutKernel ==
    [][\A i \in ServiceInputs, fmt \in PipelineFormats, exp \in ExportOutcomes :
          (/\ PipelineCall(i, fmt, exp)
           /\ uploads[i].exists
           /\ Lower(uploads[i].ext) \in {"step", "stp", "iges", "igs"}
           /\ Lower(fmt) \in exporters
           /\ ~kernel)
          => /\ ConverterRead(uploads[i]).kind = "raise"
             /\ last_call'.result = Raise("ValueError", KernelMissing)
             /\ outputs' = outputs]_vars

\* C25 witness: convert called on a well-formed .igs file without the kernel
\* has raised the kernel error and no output file exists.
C25_Witness ==
    /\ ~kernel
    /\ last_call.op = "convert"
    /\ Lower(last_call.output_format) \in exporters
    /\ uploads[last_call.input_path] = File("igs", "valid")
    /\ last_call.result = Raise("ValueError", KernelMissing)
    /\ \A p \in OutPaths : ~outputs[p]

\* A cycle of the loop: a step that takes a loop task from its start, or
\* from the end of a sleep, into its next sleep.
IsCycle ==
    \E t \in DOMAIN cleanup.tasks :
        /\ cleanup.tasks[t].state \in {"created", "ready"}
        /\ cleanup'.tasks[t].state = "sleeping"

\* The kinds of operation that raised OSError in a cycle.
RaisedIn(call) == {e[1] : e \in call.errors}

\* The regular files _clean_directory deleted below directories[i] in this
\* step: there before it, gone after it.
DeletedBelow(i) ==
    {d \in Dirs : /\ d[1] = directories[i][1]
                  /\ tree[d].file # "absent"
                  /\ tree'[d].file = "absent"}

\* C26: after a cycle that listed every directory it came to and in which no
\* unlink failed, no file that was expired at the start of the cycle is left
\* in a configured directory or below it; a file written again at a path
\* deleted in an earlier cycle is no exception.
C26_ExpiredFilesAreReaped ==
    [][(IsCycle /\ RaisedIn(last_call') \subseteq {"rmdir"})
       => \A d \in Dirs :
              (tree[d].exists /\ tree[d].file = "expired")
              => tree'[d].file = "absent"]_vars

\* C26 witness: a cycle without an error has deleted expired files at two
\* levels or more below the first directory and one in the second, and none
\* is left.
C26_Witness ==
    /\ last_call.op = "cycle"
    /\ last_call.errors = {}
    /\ last_call.counts[1] >= 2
    /\ last_call.counts[2] = 1
    /\ \A d \in Dirs : tree[d].file # "expired"

\* C27: a cycle, whatever fails in it, leaves every file whose age is at most
\* the TTL or cannot be read as it is, and leaves the directory of such a
\* file and every directory above it in place.
C27_FreshFilesSurvive ==
    [][IsCycle
       => \A d \in Dirs :
              (tree[d].exists /\ tree[d].file \in {"fresh", "unreadable"})
              => /\ tree'[d] = tree[d]
                 /\ \A k \in 0 .. d[2] : tree'[<<d[1], k>>].exists]_vars

\* C27 witness: a cycle has deleted a file below the first directory, and a
\* file whose age cannot be read is in its subdirectory.
C27_Witness ==
    /\ last_call.op = "cycle"
    /\ last_call.counts[1] >= 1
    /\ tree[<<"uploads", 0>>].file = "absent"
    /\ tree[<<"uploads", 1>>] = Dir("unreadable")

\* What _clean_directory returned for each configured directory is the
\* number of files deleted in it and below it.
CountsAreExact ==
    \A i \in DOMAIN directories :
        last_call'.counts[i] = Cardinality(DeletedBelow(i))

\* No subdirectory is left without a file and without a subdirectory.
NoEmptySubdirectoryLeft ==
    \A d \in Dirs : (d[2] > 0 /\ tree'[d].exists) => ~IsEmpty(tree', d)

\* C28 as stated: after every cycle no empty subdirectory is left, and the
\* counts are the numbers of deleted files.
C28_EmptySubdirectoriesRemoved ==
    [][IsCycle => NoEmptySubdirectoryLeft /\ CountsAreExact]_vars

\* C28: after a cycle in which no listing and no rmdir raised, no empty
\* subdirectory is left; after every cycle the counts are the numbers of
\* deleted files, files in subdirectories included.
C28_EmptySubdirectoriesRemovedUnlessRmdirFails ==
    [][IsCycle
       => /\ RaisedIn(last_call') \subseteq {"unlink"} => NoEmptySubdirectoryLeft
          /\ CountsAreExact]_vars

\* C28 witness: a cycle has deleted the files of the first directory and of
\* a subdirectory that is gone.
C28_Witness ==
    /\ last_call.op = "cycle"
    /\ last_call.counts[1] = 2
    /\ tree[<<"uploads", 0>>] = Dir("absent")
    /\ ~tree[<<"uploads", 1>>].exists

\* The loop tasks that are not done.
AliveTasks == {t \in DOMAIN cleanup.tasks : cleanup.tasks[t].state # "done"}

\* The loop tasks that are not done and not cancelled.
LiveTasks == {t \in AliveTasks : ~cleanup.tasks[t].cancel}

\* C29 as stated: start() while running changes nothing, and at most one
\* loop task is not done.
C29_OneTaskAlive ==
    [][/\ (cleanup.running /\ Start) => (cleanup' = cleanup /\ tree' = tree)
       /\ Cardinality(AliveTasks') <= 1]_vars

\* C29: start() while running changes nothing, and at most one loop task is
\* neither done nor cancelled, whatever the order of the start() and stop()
\* calls and of the steps of the tasks.
C29_OneTaskLive ==
    [][/\ (cleanup.running /\ Start) => (cleanup' = cleanup /\ tree' = tree)
       /\ Cardinality(LiveTasks') <= 1]_vars

\* C29 witness: start() was called on the running service and its one task
\* is still the only one.
C29_Witness ==
    /\ last_call = [op |-> "start", created |-> FALSE]
    /\ cleanup.running
    /\ Len(cleanup.tasks) = 1
    /\ AliveTasks = {1}

\* stop() returns only when the task it waits for is done; a task runs a
\* cycle only while the service is running and the task is not cancelled;
\* a cancelled task that a stop() waits for can end at once; stop() on a
\* stopped service changes nothing.
StopSemantics ==
    /\ \A t \in 1 .. MaxTasks : StopReturn(t) => cleanup.tasks[t].state = "done"
    /\ \A t \in DOMAIN cleanup.tasks :
           (cleanup.tasks[t].state \in {"created", "ready"}
              /\ cleanup'.tasks[t].state = "sleeping")
           => /\ cleanup.running
              /\ ~cleanup.tasks[t].cancel
              /\ t \notin cleanup.awaiting
    /\ \A t \in cleanup.awaiting :
           cleanup.tasks[t].state = "done" \/ cleanup.tasks[t].cancel
    /\ (~cleanup.running /\ StopCall) => (cleanup' = cleanup /\ tree' = tree)

\* C30 as stated: stop() has the semantics above and running is false
\* whenever it returns.
C30_StopReturnsStopped ==
    [][/\ StopSemantics
       /\ \A t \in 1 .. MaxTasks : StopReturn(t) => ~cleanup'.running]_vars

\* C30: stop() has the semantics above, and running is false when it
\* returns unless a start() has replaced the task it was waiting for.
C30_StopReturnsStoppedUnlessRestarted ==
    [][/\ StopSemantics
       /\ \A t \in 1 .. MaxTasks :
              (StopReturn(t) /\ cleanup._task = t) => ~cleanup'.running]_vars

\* C30 witness: stop() has returned after the task it cancelled ended, the
\* service is stopped and a later stop() found nothing to cancel.
C30_Witness ==
    /\ last_call = [op |-> "stop", cancelled |-> 0]
    /\ ~cleanup.running
    /\ cleanup.awaiting = {}
    /\ cleanup.tasks = <<Task("done", FALSE)>>

\* C31: get_stats changes nothing of the service object (running, the task,
\* the TTL, the directory list, the set of cleaned files) and no file or
\* directory, and the running flag, the TTL in minutes and the directory
\* list it reports are those of the object at the call.
C31_GetStatsObservesOnly ==
    [][\A failing \in SUBSET DOMAIN directories :
          GetStats(failing)
          => /\ cleanup' = cleanup
             /\ tree' = tree
             /\ last_call'.stats.running = cleanup.running
             /\ last_call'.stats.ttl_minutes * 60 = cleanup.ttl_seconds
             /\ last_call'.stats.directories = cleanup.directories]_vars

\* C31 witness: get_stats was called on a running service whose loop task
\* sleeps, and reported running, 30 minutes and one file.
C31_Witness ==
    /\ last_call.op = "get_stats"
    /\ last_call.stats.running
    /\ last_call.stats.ttl_minutes = 30
    /\ 1 \in DOMAIN last_call.stats.file_count
    /\ last_call.stats.file_count[1] = 1
    /\ cleanup.running
    /\ cleanup.tasks = <<Task("sleeping", FALSE)>>

\* C32: in a cycle in which unlink or rmdir raised, and no listing did, the
\* file whose unlink raised is still there, is not in the paths the cycle
\* added to the set of cleaned files and is not counted; every other expired
\* file of every configured directory is deleted and counted, every other
\* empty subdirectory removed; and the loop task sleeps until its next cycle
\* with the service still running.
C32_FailedDeleteIsBenign ==
    [][(IsCycle /\ last_call'.errors # {}
          /\ RaisedIn(last_call') \subseteq {"unlink", "rmdir"})
       => /\ \A d \in Dirs :
                 (tree[d].exists /\ tree[d].file = "expired")
                 => IF <<"unlink", d>> \in last_call'.errors
                    THEN tree'[d] = tree[d] /\ d \notin last_call'.added
                    ELSE tree'[d].file = "absent" /\ d \in last_call'.added
          /\ \A d \in Dirs :
                 (d[2] > 0 /\ tree'[d].exists /\ IsEmpty(tree', d))
                 => <<"rmdir", d>> \in last_call'.errors
          /\ CountsAreExact
          /\ cleanup'.running
          /\ cleanup'.tasks[last_call'.task] = Task("sleeping", FALSE)]_vars

\* C32 witness: a cycle in which the unlink of the file of the first
\* directory raised has deleted the file of its subdirectory and that of the
\* second directory, and the file that could not be deleted is still there.
C32_Witness ==
    /\ last_call.op = "cycle"
    /\ last_call.errors = {<<"unlink", <<"uploads", 0>>>>}
    /\ last_call.counts = <<1, 1>>
    /\ last_call.added = {<<"uploads", 1>>, <<"temp", 0>>}
    /\ tree[<<"uploads", 0>>] = Dir("expired")
    /\ ~tree[<<"uploads", 1>>].exists

\* The calls of convert in their order, and the beginnings of that order.
StepOrder == <<"read", "validate", "probe", "export">>

Invoked(steps, step) == \E k \in DOMAIN steps : steps[k] = step

\* C33: convert makes its calls in the order read, validate, probe, export
\* and none after the first that raised: read is called only for an
\* existing input with a registered extension and a registered output token,
\* the exporter only after a read that returned a mesh which has vertices and
\* faces, and a convert that raised without calling the exporter has probed
\* no output path and left the output directory as it was.
C33_StepsInOrder ==
    [][\A i \in ServiceInputs, fmt \in PipelineFormats, exp \in ExportOutcomes :
          PipelineCall(i, fmt, exp) =>
              LET f == uploads[i]
                  r == last_call'.result
                  steps == last_call'.steps
              IN  /\ steps = SubSeq(StepOrder, 1, Len(steps))
                  /\ Invoked(steps, "read") =>
                        /\ f.exists
                        /\ Lower(f.ext) \in {"step", "stp", "iges", "igs", "stl"}
                        /\ Lower(fmt) \in RegisteredTokens
                  /\ Invoked(steps, "validate") => f.kind # "malformed"
                  /\ Invoked(steps, "export") =>
                        /\ ~(Lower(f.ext) \in {"step", "stp", "iges", "igs"} /\ ~kernel)
                        /\ f.kind \notin {"malformed", "empty"}
                  /\ r.kind = "return" => Invoked(steps, "export")
                  /\ (r.kind = "raise" /\ ~Invoked(steps, "export")) =>
                        /\ ~Invoked(steps, "probe")
                        /\ outputs' = outputs]_vars

\* C33 witness: a convert of a file without geometry has raised the
\* validation error after read and validate, and no output file exists.
C33_Witness ==
    /\ last_call.op = "convert"
    /\ last_call.steps = <<"read", "validate">>
    /\ last_call.result = Raise("ValueError", "Mesh has no vertices")
    /\ \A p \in OutPaths : ~outputs[p]

\* The regular files in the configured directories and below them.
FilesPresent(t) == {d \in Dirs : t[d].exists /\ t[d].file # "absent"}

RECURSIVE TrianglesBefore(_, _)
TrianglesBefore(kfaces, k) ==
    IF k <= 1 THEN 0
    ELSE TrianglesBefore(kfaces, k - 1) + Len(kfaces[k - 1].triangles)

\* The emitted face, a triple of indices from 0 into vertices, resolves to
\* the positions of the nodes t names in face, in this winding or the other.
Resolves(vertices, emitted, face, t) ==
    /\ \A c \in 1..3 : emitted[c] >= 0 /\ emitted[c] < Len(vertices)
    /\ LET got == [c \in 1..3 |-> vertices[emitted[c] + 1]]
           want == [c \in 1..3 |-> Node(face, t[c])]
       IN  got = want \/ got = <<want[1], want[3], want[2]>>

RenumberedCorrectly(call) ==
    /\ call.result.kind = "return"
    /\ Len(call.result.faces) = TrianglesBefore(call.kfaces, Len(call.kfaces) + 1)
    /\ \A k \in DOMAIN call.kfaces : \A j \in DOMAIN call.kfaces[k].triangles :
          Resolves(call.result.vertices,
                   call.result.faces[TrianglesBefore(call.kfaces, k) + j],
                   call.kfaces[k], call.kfaces[k].triangles[j])

\* C35: every B-rep converter returns a mesh with one face for every kernel
\* triangle, whose three indices are below len(vertices) and resolve to the
\* transformed positions of the nodes the triangle names in its own kernel
\* face, up to winding.
C35_GlobalRenumbering ==
    last_call.op = "read" => RenumberedCorrectly(last_call)

\* The converters the pipeline registers renumber correctly.
C35_RegisteredConvertersRenumber ==
    (last_call.op = "read" /\ last_call.converter \in {"STEPConverterOCP", "IGESConverter"})
    => RenumberedCorrectly(last_call)

C37_SyncNeverOverwrites ==
    [][(frame.pc = "idle" /\ frame'.pc = "return")
       => /\ sync'.pipeline.kind = "return" => ~outputs[sync'.pipeline.path]
          /\ sync'.placeholder => ~outputs[sync'.result.path]]_vars

\* C38: once convert_file has answered a submission with its job_id, as the
\* acknowledgement of an asynchronous request or the COMPLETED response of a
\* synchronous one, neither the status endpoint nor the download endpoint
\* answers "Job not found" for that job_id.
C38_ReturnedJobIsKnown ==
    (last_ack.kind \in {"sync", "async"} /\ frame.pc # "respond" /\ next_id \in JobIds)
    => /\ GetJobStatusResult(next_id) # NotFound
       /\ DownloadResult(next_id).detail # "Job not found"

\* C39: every extension and token GET /formats lists is registered in the
\* pipeline, every submission the format checks of convert_file accept has a
\* registered converter and a registered exporter, and every submission of a
\* registered extension with a registered token is accepted.
C39_FormatsAgreeWithRegistry ==
    /\ last_call.op = "formats" =>
          /\ last_call.answer.input_formats \subseteq RegisteredExtensions
          /\ last_call.answer.output_formats \subseteq RegisteredTokens
    /\ last_call.op = "submit" =>
          /\ last_call.answer = "accepted" =>
                /\ Lowercased(last_call.ext) \in RegisteredExtensions
                /\ Lowercased(last_call.output_format) \in RegisteredTokens
          /\ (/\ last_call.ext \in RegisteredExtensions
              /\ last_call.output_format \in RegisteredTokens)
                => last_call.answer = "accepted"

====
